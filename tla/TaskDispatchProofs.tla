------------------------- MODULE TaskDispatchProofs -------------------------
(***************************************************************************)
(* Theorems about TaskDispatch, for every number of executors, attempts,   *)
(* versions and crashes.                                                   *)
(***************************************************************************)
EXTENDS TaskDispatch, FiniteSetTheorems, SequenceTheorems, TLAPS

-----------------------------------------------------------------------------
(***************************************************************************)
(* The inductive invariant.                                                *)
(***************************************************************************)

\* POST n may be, or become, a run.
Live(n) == run[n] # "none" \/ net[n] \in {"wire", "checking"}

\* POSTs are numbered in the order they are sent, and each creates one run at most; only
\* with file synchronisation does one wait for a check.
Numbered ==
  \A n \in Sends :
    /\ n > sent => net[n] = "unsent" /\ run[n] = "none"
    /\ net[n] # "unsent" \/ run[n] # "none" => to[n] \in Executors
    /\ net[n] # "gone" => run[n] = "none"
    /\ net[n] = "checking" => SyncOn

\* What is left of the attempts: Retries + 1 for every candidate in the list, those made
\* at the first one taken off.
Attempts == Retries + 1
Counted ==
  /\ pc = "queued" => sent = 0
  /\ pc = "ready" =>
       order # <<>> /\ sent + Len(order) * Attempts <= Cardinality(Executors) * Attempts + tries
  /\ pc = "posting" =>
       /\ order # <<>> /\ sent >= 1
       /\ sent + Len(order) * Attempts <= Cardinality(Executors) * Attempts + tries + 1

\* An executor's table shows a run of its own, of its present life.
Tabled ==
  \A e \in Executors :
    table[e] # 0 => to[table[e]] = e /\ run[table[e]] \in Statuses

\* All POSTs that may become a run, and all runs, are at one executor, task.executor_url.
\* While candidates are tried, it is the one at the head of the list, and in doubt.
Targeted ==
  /\ \A n \in Sends : Live(n) => to[n] = url /\ pc # "queued"
  /\ pc = "ready" => \A n \in Sends : Live(n) => ambiguous /\ Head(order) = url
  /\ pc = "posting" => Head(order) = url /\ \A n \in Sends : Live(n) => n = sent \/ ambiguous
  /\ reply # "none" => pc = "posting"
  /\ reply \in {"busy", "mismatch"} => ~Live(sent)

\* What is committed, and what is told of it.
Recorded ==
  /\ \A n \in Sends :
       /\ n \in loaded => run[n] \notin {"none", "QUEUED"}
       /\ run[n] = "DONE" => n \in loaded
  /\ status = "DONE" \/ seen = "DONE" => loaded # {}
  /\ seen # "none" => pc = "getting"

\* A task is only given up as declined by all when no POST may become a run any more.
Exhausted ==
  why \in {"exhausted", "noCandidate"} =>
    pc \in {"over", "final"} /\ \A n \in Sends : ~Live(n)

Polled == {"poll", "getting", "over", "final"}
Plain  == crashes = 0 /\ ~SyncOn

\* The run that the coordinator polls has failed.
RunFailed == table[url] # 0 /\ run[table[url]] = "FAILED"

\* With no restart and no repeated runs, a failure that is reported is that of the only run.
Reported ==
  /\ why = "reported" => pc \in Polled
  /\ Plain => \A n \in Sends : run[n] # "none" => table[to[n]] = n
  /\ Plain /\ status = "FAILED" /\ why = "reported" => RunFailed
  /\ Plain /\ seen = "FAILED" => RunFailed

IInv ==
  /\ TypeOK /\ Numbered /\ Counted /\ Tabled
  /\ Targeted /\ Exhausted /\ Recorded /\ Reported

\* Without file synchronisation, an executor starts one run in each life of its process.
Lives ==
  ~SyncOn =>
    /\ \A n \in Sends : run[n] \in {"QUEUED", "WRITING"} => table[to[n]] = n
    /\ Cardinality(Accepted) <= crashes + (IF table[url] # 0 THEN 1 ELSE 0)

-----------------------------------------------------------------------------
(***************************************************************************)
(* Arithmetic of the attempts, and the lists of candidates.                *)
(***************************************************************************)
LEMMA Multiples ==
  ASSUME NEW a \in Nat, NEW b \in Nat, NEW k \in Nat
  PROVE  /\ a <= b => a * k <= b * k
         /\ a >= 1 => a * k >= k /\ (a - 1) * k = a * k - k
<1>1. ASSUME a <= b PROVE a * k <= b * k
  <2>1. PICK d \in Nat : b = a + d
    BY <1>1
  <2>2. b * k = a * k + d * k /\ d * k \in Nat /\ a * k \in Nat
    BY <2>1
  <2>3. QED BY <2>2
<1>2. ASSUME a >= 1 PROVE a * k >= k /\ (a - 1) * k = a * k - k
  <2>1. PICK d \in Nat : a = 1 + d
    BY <1>2
  <2>2. a * k = k + d * k /\ d * k \in Nat /\ a - 1 = d
    BY <2>1
  <2>3. QED BY <2>2
<1>3. QED BY <1>1, <1>2

LEMMA Sizes ==
  /\ Cardinality(Executors) \in Nat /\ Attempts \in Nat /\ Retries \in Nat
  /\ Cardinality(Executors) * Attempts \in Nat
  /\ Sends = 1 .. (Cardinality(Executors) * Attempts)
<1>1. Cardinality(Executors) \in Nat
  BY ExecutorsAssumption, FS_CardinalityType
<1>2. Attempts \in Nat /\ Retries \in Nat
  BY RetriesAssumption DEF Attempts
<1>3. \A a, b \in Nat : a * b \in Nat
  OBVIOUS
<1>4. QED BY <1>1, <1>2, <1>3 DEF Sends, Attempts

LEMMA OrdersAreLists ==
  ASSUME NEW o \in Orders
  PROVE  o \in Seq(Executors) /\ Len(o) \in Nat /\ Len(o) <= Cardinality(Executors)
<1>1. PICK k \in 0..Cardinality(Executors) : o \in [1..k -> Executors]
  BY DEF Orders
<1>2. k \in Nat /\ k <= Cardinality(Executors)
  BY <1>1, Sizes
<1>3. o \in Seq(Executors)
  BY <1>1, <1>2, SeqDef
<1>4. Len(o) = k
  BY <1>1, <1>2, <1>3
<1>5. QED BY <1>2, <1>3, <1>4

\* There is a number left for the next POST.
LEMMA Room ==
  ASSUME TypeOK, Counted, pc = "ready"
  PROVE  sent + 1 \in Sends /\ sent \in Nat
<1> DEFINE l == Len(order)
           m == Cardinality(Executors) * Attempts
<1>1. /\ l \in Nat /\ l >= 1 /\ sent \in Nat /\ tries \in Nat /\ tries <= Retries
      /\ sent + l * Attempts <= m + tries /\ m \in Nat /\ Attempts = Retries + 1
      /\ Attempts \in Nat /\ Retries \in Nat
  BY Sizes, EmptySeq DEF TypeOK, Counted, Attempts
<1>2. l * Attempts >= Attempts /\ l * Attempts \in Nat
  BY <1>1, Multiples
<1>3. sent + 1 \in 1..m
  <2> DEFINE x == l * Attempts
  <2>1. x >= Attempts /\ x \in Nat /\ sent + x <= m + tries
    BY <1>1, <1>2
  <2> HIDE DEF x, m
  <2>2. QED BY <1>1, <2>1
<1>4. QED BY <1>1, <1>3, Sizes

-----------------------------------------------------------------------------
(***************************************************************************)
(* The types.                                                              *)
(***************************************************************************)

\* The lists of candidates, and the number of the last POST.
LEMMA ListsKeep ==
  ASSUME TypeOK, Counted, Dispatch
  PROVE  order' \in Seq(Executors) /\ sent' \in Sends \union {0}
<1>1. order' \in Seq(Executors)
  <2>1. order \in Seq(Executors) /\ <<>> \in Seq(Executors)
    BY DEF TypeOK
  <2>2. order # <<>> => Tail(order) \in Seq(Executors)
    BY <2>1
  <2>3. Len(order) > 1 => order # <<>>
    BY <2>1
  <2>4. \/ order' = order \/ order' = <<>> \/ (Len(order) > 1 /\ order' = Tail(order))
        \/ order' \in Orders
    BY DEF Dispatch, Begin, Withdraw, Post, PostUnconnected, PostAnswered, PostUnanswered, PollNext,
           PollAnswered, PollFails, Breaks, Finalize, Settle, LeaveLoop, AttemptFails, GiveUpOn,
           NextCandidate
  <2>5. QED BY <2>1, <2>2, <2>3, <2>4, OrdersAreLists
<1>2. sent' \in Sends \union {0}
  <2>1. sent' = sent \/ (pc = "ready" /\ sent' = sent + 1)
    BY DEF Dispatch, Begin, Withdraw, Post, PostUnconnected, PostAnswered, PostUnanswered, PollNext,
           PollAnswered, PollFails, Breaks, Finalize
  <2>2. QED BY <2>1, Room DEF TypeOK
<1>3. QED BY <1>1, <1>2

\* How an attempt ends: another one at the same candidate, or the next candidate.
Again(d) ==
  /\ tries < Retries
  /\ tries' = tries + 1
  /\ ambiguous' = (ambiguous \/ ~d)
  /\ pc' = "ready"
  /\ UNCHANGED <<order, status, why>>

Onward ==
  /\ Len(order) > 1
  /\ order' = Tail(order)
  /\ tries' = 0 /\ ambiguous' = FALSE
  /\ pc' = "ready"
  /\ UNCHANGED <<status, why>>

Outcome(d) ==
  \/ Again(d)
  \/ Settle("FAILED", "unclear")
  \/ d /\ ~ambiguous /\ (Onward \/ Settle("FAILED", "exhausted"))

LEMMA GivingUp ==
  ASSUME NEW d, GiveUpOn(d)
  PROVE  \/ d /\ Settle("FAILED", "unclear")
         \/ ~d /\ Onward
         \/ ~d /\ Settle("FAILED", "exhausted")
BY Zenon DEF GiveUpOn, NextCandidate, Onward

LEMMA Attempting ==
  ASSUME NEW d, AttemptFails(d)
  PROVE  Outcome(d)
<1>1. CASE tries = Retries /\ GiveUpOn(ambiguous \/ ~d)
  <2>1. \/ Settle("FAILED", "unclear")
        \/ ~(ambiguous \/ ~d) /\ Onward
        \/ ~(ambiguous \/ ~d) /\ Settle("FAILED", "exhausted")
    BY <1>1, Zenon DEF GiveUpOn, NextCandidate, Onward
  <2>2. QED BY <2>1, Zenon DEF Outcome
<1>2. QED BY <1>1, Zenon DEF AttemptFails, Again, Outcome

\* A task that fails at an unexpected error: where it may stand, and what is left of it.
LEMMA Breaking ==
  ASSUME Breaks
  PROVE  /\ pc \in {"queued", "ready", "posting", "getting"} /\ pc' = "over"
         /\ status' = "FAILED" /\ why' = "broken"
         /\ tries' = 0 /\ reply' = "none" /\ seen' = "none" /\ transient' = 0
         /\ url' = url \/ (pc = "ready" /\ url' = Head(order))
         /\ UNCHANGED <<jobVars, netVars, execVars, syncVars>>
BY DEF Breaks, Settle, LeaveLoop

\* The coordinator's half of the types, apart from order, sent and the Booleans; and the rest.
CoordinatorTypes ==
  /\ pc \in {"queued", "ready", "posting", "poll", "getting", "over", "final"}
  /\ tries \in 0..Retries /\ transient \in 0..Retries
  /\ reply \in {"none", "ok", "busy", "mismatch", "conflict"}
  /\ seen \in Statuses \union {"none", "missing"}
  /\ status \in Statuses
  /\ url \in Executors /\ xmsg \in Executors \union {NoOne}
  /\ why \in {"none", "noCandidate", "conflict", "unclear", "exhausted", "pollLost", "reported",
             "broken"}
  /\ xpc \in {"none", "asked", "flagged", "sent", "done"}
  /\ job \in {"RUNNING", "PARTIAL"} \union Terminal

Booleans == ambiguous \in BOOLEAN /\ flag \in BOOLEAN

NetTypes ==
  /\ net \in [Sends -> {"unsent", "wire", "checking", "gone"}]
  /\ to \in [Sends -> Executors \union {NoOne}] /\ body \in [Sends -> Versions]

ExecutorTypes ==
  /\ table \in [Executors -> Sends \union {0}]
  /\ run \in [Sends -> Statuses \union {"none", "lost"}]
  /\ asked \subseteq Sends /\ loaded \subseteq Sends
  /\ active \in Versions /\ mine \in [Executors -> Versions]
  /\ crashes \in 0..MaxCrashes

LEMMA TypeParts ==
  TypeOK <=> /\ CoordinatorTypes /\ Booleans /\ NetTypes /\ ExecutorTypes
             /\ order \in Seq(Executors) /\ sent \in Sends \union {0}
BY Zenon DEF TypeOK, CoordinatorTypes, Booleans, NetTypes, ExecutorTypes

LEMMA BooleansKeep ==
  ASSUME Booleans, Next \/ UNCHANGED vars
  PROVE  Booleans'
<1> USE Zenon DEF Booleans, dispVars, jobVars
<1>1. ASSUME Dispatch PROVE Booleans'
  <2> USE DEF Settle, LeaveLoop
  <2>1. ASSUME NEW d, AttemptFails(d) PROVE ambiguous' \in BOOLEAN
    BY <2>1, Attempting DEF Outcome, Again, Onward
  <2>2. ASSUME NEW d, GiveUpOn(d) PROVE ambiguous' \in BOOLEAN
    BY <2>2, GivingUp DEF Onward
  <2>3. CASE Begin
    BY <2>3 DEF Begin
  <2>4. CASE Withdraw \/ Post \/ PostUnconnected
    BY <2>4, <2>1 DEF Withdraw, Post, PostUnconnected
  <2>5. CASE PostAnswered \/ PostUnanswered
    BY <2>5, <2>1, <2>2 DEF PostAnswered, PostUnanswered
  <2>6. CASE PollNext \/ PollAnswered
    BY <2>6 DEF PollNext, PollAnswered
  <2>7. CASE PollFails \/ Breaks \/ Finalize
    BY <2>7 DEF PollFails, Breaks, Finalize
  <2>8. QED BY <1>1, <2>3, <2>4, <2>5, <2>6, <2>7 DEF Dispatch
<1>2. ASSUME CancelJob \/ CancelArrives \/ GetArrives PROVE Booleans'
  BY <1>2 DEF CancelJob, CancelAsk, CancelFlag, CancelSend, CancelReturns, CancelArrives, GetArrives
<1>3. ASSUME NEW n \in Sends, Request(n) \/ Run(n) PROVE Booleans'
  BY <1>3 DEF Request, PostArrives, PostChecked, Run, RunStarts, RunLoads, RunFails, RunEnds
<1>4. ASSUME NEW e \in Executors, Crash(e) \/ OperatorCancels(e) \/ CatchUp(e) PROVE Booleans'
  BY <1>4 DEF Crash, OperatorCancels, CatchUp
<1>5. ASSUME Switch \/ Idle \/ UNCHANGED vars PROVE Booleans'
  BY <1>5 DEF Switch, Idle, vars
<1>6. QED BY <1>1, <1>2, <1>3, <1>4, <1>5 DEF Next

LEMMA DispatchTypes ==
  ASSUME CoordinatorTypes, NetTypes, ExecutorTypes, TypeOK, Counted, Dispatch
  PROVE  CoordinatorTypes' /\ NetTypes' /\ ExecutorTypes'
<1>0. order \in Seq(Executors) /\ Retries \in Nat
  BY RetriesAssumption DEF TypeOK
<1>1. ExecutorTypes'
  <2>1. UNCHANGED execVars /\ UNCHANGED syncVars
    BY Zenon DEF Dispatch, Begin, Withdraw, Post, PostUnconnected, PostAnswered, PostUnanswered,
                 PollNext, PollAnswered, PollFails, Breaks, Finalize
  <2>2. QED BY <2>1 DEF ExecutorTypes, execVars, syncVars
<1>2. NetTypes'
  <2>1. CASE Post
    <3>1. sent' \in Sends /\ sent' = sent + 1
      BY <2>1, Room DEF Post
    <3>2. Head(order) \in Executors
      BY <1>0, <2>1 DEF Post, Counted
    <3>3. active \in Versions
      BY DEF ExecutorTypes
    <3>4. QED BY <2>1, <3>1, <3>2, <3>3 DEF Post, NetTypes
  <2>2. CASE UNCHANGED netVars
    BY <2>2 DEF netVars, NetTypes
  <2>3. QED
    BY <2>1, <2>2, Zenon
    DEF Dispatch, Begin, Withdraw, PostUnconnected, PostAnswered, PostUnanswered,
        PollNext, PollAnswered, PollFails, Breaks, Finalize
<1>3. CoordinatorTypes'
  <2> USE RetriesAssumption
      DEF CoordinatorTypes, Settle, LeaveLoop, taskVars, jobVars, Terminal, Statuses
  <2> DEFINE Fails == /\ pc' \in {"ready", "over"} /\ tries' \in 0..Retries
                      /\ status' \in {status, "FAILED"} /\ why' \in {why, "unclear", "exhausted"}
  <2>1. (\E d : AttemptFails(d) \/ GiveUpOn(d)) => Fails
    <3>1. SUFFICES ASSUME \/ (tries < Retries /\ tries' = tries + 1 /\ pc' = "ready"
                              /\ UNCHANGED <<status, why>>)
                          \/ Onward \/ Settle("FAILED", "unclear") \/ Settle("FAILED", "exhausted")
                   PROVE  Fails
      BY Attempting, GivingUp, Zenon DEF Outcome, Again
    <3>2. QED BY <3>1 DEF Onward
  <2>3. CASE Begin
    BY <2>3 DEF Begin
  <2>4. CASE Withdraw
    BY <2>4 DEF Withdraw
  <2>5. CASE Post \/ PostUnconnected
    <3>1. Head(order) \in Executors
      <4>1. pc = "ready"
        BY <2>5, Zenon DEF Post, PostUnconnected
      <4>2. QED BY <1>0, <4>1 DEF Counted
    <3>2. CASE Post
      BY <3>1, <3>2 DEF Post
    <3>3. CASE PostUnconnected
      <4>1. Fails /\ url' = Head(order) /\ UNCHANGED <<reply, seen, transient, jobVars>>
        BY <3>3, <2>1, Zenon DEF PostUnconnected
      <4>2. QED BY <3>1, <4>1
    <3>4. QED BY <2>5, <3>2, <3>3
  <2>6. CASE PostAnswered
    <3>1. reply' = "none" /\ UNCHANGED <<seen, transient, url, jobVars>>
      BY <2>6, Zenon DEF PostAnswered
    <3>2. \/ pc' = "poll" /\ LeaveLoop /\ UNCHANGED <<status, why>>
          \/ Settle("FAILED", "conflict")
          \/ Fails
      BY <2>1, <2>6, Zenon DEF PostAnswered
    <3>3. QED BY <3>1, <3>2
  <2>7. CASE PostUnanswered
    <3>1. Fails /\ reply' = "none" /\ UNCHANGED <<seen, transient, url, jobVars>>
      BY <2>1, <2>7, Zenon DEF PostUnanswered
    <3>2. QED BY <3>1
  <2>8. CASE PollNext
    BY <2>8 DEF PollNext
  <2>9. CASE PollAnswered
    BY <2>9 DEF PollAnswered
  <2>10. CASE PollFails
    BY <2>10 DEF PollFails
  <2>11. CASE Finalize
    BY <2>11 DEF Finalize
  <2>12. CASE Breaks
    <3>1. url' \in Executors
      BY <1>0, <2>12, Breaking DEF Counted
    <3>2. QED BY <2>12, <3>1, Breaking
  <2>13. QED
    BY <2>3, <2>4, <2>5, <2>6, <2>7, <2>8, <2>9, <2>10, <2>11, <2>12 DEF Dispatch
<1>4. QED BY <1>1, <1>2, <1>3

LEMMA OtherTypes ==
  ASSUME CoordinatorTypes, NetTypes, ExecutorTypes, TypeOK, Tabled,
         Next \/ UNCHANGED vars, ~Dispatch
  PROVE  CoordinatorTypes' /\ NetTypes' /\ ExecutorTypes' /\ UNCHANGED <<order, sent>>
<1> USE DEF dispVars, taskVars, jobVars, netVars, execVars, syncVars
<1>1. CASE CancelJob
  <2>1. /\ NetTypes' /\ ExecutorTypes' /\ UNCHANGED dispVars
    BY <1>1 DEF CancelJob, CancelAsk, CancelFlag, CancelSend, CancelReturns, NetTypes, ExecutorTypes
  <2>2. CoordinatorTypes'
    BY <1>1 DEF CancelJob, CancelAsk, CancelFlag, CancelSend, CancelReturns, CoordinatorTypes,
                Statuses, Terminal
  <2>3. QED BY <2>1, <2>2
<1>2. ASSUME NEW e \in Executors, CancelAt(e)
      PROVE  run' \in [Sends -> Statuses \union {"none", "lost"}] /\ asked' \subseteq Sends
  BY <1>2 DEF CancelAt, ExecutorTypes, Statuses, Terminal
<1>3. CASE CancelArrives
  <2>1. xmsg \in Executors
    BY <1>3 DEF CancelArrives, CoordinatorTypes
  <2>2. CancelAt(xmsg) /\ xmsg' = NoOne
        /\ UNCHANGED <<dispVars, taskVars, xpc, flag, job, netVars, table, loaded, syncVars>>
    BY <1>3, Zenon DEF CancelArrives
  <2>3. QED BY <1>2, <2>1, <2>2 DEF CoordinatorTypes, NetTypes, ExecutorTypes
<1>4. ASSUME NEW n \in Sends, Request(n)
      PROVE  CoordinatorTypes' /\ NetTypes' /\ ExecutorTypes' /\ UNCHANGED <<order, sent>>
  <2>1. /\ reply' \in {reply, "ok", "busy", "mismatch", "conflict"}
        /\ net' \in {[net EXCEPT ![n] = "gone"], [net EXCEPT ![n] = "checking"]}
        /\ \/ UNCHANGED <<table, run>>
           \/ table' = [table EXCEPT ![to[n]] = n] /\ run' = [run EXCEPT ![n] = "QUEUED"]
        /\ UNCHANGED <<pc, order, tries, ambiguous, sent, seen, transient, taskVars, jobVars,
                       to, body, asked, loaded, syncVars>>
    BY <1>4 DEF Request, PostArrives, PostChecked, Accept, Decline, Answer
  <2>2. QED BY <2>1 DEF CoordinatorTypes, NetTypes, ExecutorTypes, Statuses
<1>5. ASSUME NEW n \in Sends, Run(n)
      PROVE  CoordinatorTypes' /\ NetTypes' /\ ExecutorTypes' /\ UNCHANGED <<order, sent>>
  BY <1>5 DEF Run, RunStarts, RunLoads, RunFails, RunEnds,
              CoordinatorTypes, NetTypes, ExecutorTypes, Statuses, Terminal
<1>6. CASE GetArrives
  <2>1. seen' \in Statuses \union {"none", "missing"}
    BY <1>6 DEF GetArrives, CoordinatorTypes, ExecutorTypes, Tabled
  <2>2. QED BY <1>6, <2>1 DEF GetArrives, CoordinatorTypes, NetTypes, ExecutorTypes
<1>7. ASSUME NEW e \in Executors, Crash(e)
      PROVE  CoordinatorTypes' /\ NetTypes' /\ ExecutorTypes' /\ UNCHANGED <<order, sent>>
  <2>1. CoordinatorTypes' /\ UNCHANGED <<order, sent, to, body, asked, active, mine>>
    BY <1>7 DEF Crash, CoordinatorTypes
  <2>2. crashes' \in 0..MaxCrashes
    BY <1>7, BoundsAssumption DEF Crash, ExecutorTypes
  <2>3. /\ net' \in [Sends -> {"unsent", "wire", "checking", "gone"}]
        /\ run' \in [Sends -> Statuses \union {"none", "lost"}]
        /\ table' \in [Executors -> Sends \union {0}]
        /\ loaded' \subseteq Sends
    BY <1>7 DEF Crash, NetTypes, ExecutorTypes
  <2>4. QED BY <2>1, <2>2, <2>3 DEF NetTypes, ExecutorTypes
<1>8. ASSUME NEW e \in Executors, OperatorCancels(e) \/ CatchUp(e)
      PROVE  CoordinatorTypes' /\ NetTypes' /\ ExecutorTypes' /\ UNCHANGED <<order, sent>>
  <2>1. CASE OperatorCancels(e)
    BY <1>2, <2>1 DEF OperatorCancels, CoordinatorTypes, NetTypes, ExecutorTypes
  <2>2. CASE CatchUp(e)
    BY <2>2 DEF CatchUp, CoordinatorTypes, NetTypes, ExecutorTypes
  <2>3. QED BY <1>8, <2>1, <2>2
<1>9. CASE Switch
  <2>1. active' \in Versions
    BY <1>9, BoundsAssumption DEF Switch, ExecutorTypes, Versions
  <2>2. QED BY <1>9, <2>1 DEF Switch, CoordinatorTypes, NetTypes, ExecutorTypes
<1>10. CASE UNCHANGED vars
  BY <1>10 DEF vars, CoordinatorTypes, NetTypes, ExecutorTypes
<1>11. QED
  BY <1>1, <1>3, <1>4, <1>5, <1>6, <1>7, <1>8, <1>9, <1>10, Zenon DEF Next, Idle

LEMMA TypesKeep ==
  ASSUME TypeOK, Counted, Tabled, Next \/ UNCHANGED vars
  PROVE  TypeOK'
<1>1. /\ CoordinatorTypes /\ Booleans /\ NetTypes /\ ExecutorTypes
      /\ order \in Seq(Executors) /\ sent \in Sends \union {0}
  BY TypeParts, Zenon
<1>2. Booleans'
  BY <1>1, BooleansKeep
<1>3. /\ CoordinatorTypes' /\ NetTypes' /\ ExecutorTypes'
      /\ order' \in Seq(Executors) /\ sent' \in Sends \union {0}
  BY <1>1, DispatchTypes, OtherTypes, ListsKeep
<1>4. QED
  BY <1>2, <1>3, Zenon DEF TypeOK, CoordinatorTypes, Booleans, NetTypes, ExecutorTypes

-----------------------------------------------------------------------------
(***************************************************************************)
(* The attempts are counted.                                               *)
(***************************************************************************)

\* What only the coordinator's own actions change.
LEMMA OthersFrame ==
  ASSUME Next \/ UNCHANGED vars, ~Dispatch
  PROVE  UNCHANGED <<pc, order, tries, ambiguous, sent, transient, url, why>>
<1> USE Zenon DEF dispVars, taskVars
<1>1. CASE CancelJob \/ CancelArrives \/ GetArrives \/ Switch
  BY <1>1
  DEF CancelJob, CancelAsk, CancelFlag, CancelSend, CancelReturns, CancelArrives, GetArrives, Switch
<1>2. CASE \E n \in Sends : Request(n) \/ Run(n)
  BY <1>2 DEF Request, PostArrives, PostChecked, Run, RunStarts, RunLoads, RunFails, RunEnds
<1>3. CASE \E e \in Executors : Crash(e) \/ OperatorCancels(e) \/ CatchUp(e)
  BY <1>3 DEF Crash, OperatorCancels, CatchUp
<1>4. CASE Idle \/ UNCHANGED vars
  BY <1>4 DEF Idle, vars
<1>5. QED BY <1>1, <1>2, <1>3, <1>4 DEF Next

\* After a failed attempt with number sent', counted at the candidate before it.
LEMMA AttemptCounted ==
  ASSUME TypeOK, order # <<>>, sent' \in Sends,
         sent' + Len(order) * Attempts <= Cardinality(Executors) * Attempts + tries + 1,
         (\E d : AttemptFails(d) \/ GiveUpOn(d))
  PROVE  Counted'
<1> DEFINE l == Len(order)
           m == Cardinality(Executors) * Attempts
<1>1. /\ l \in Nat /\ l >= 1 /\ sent' \in Nat /\ tries \in Nat /\ tries <= Retries
      /\ sent' + l * Attempts <= m + tries + 1 /\ m \in Nat /\ Attempts = Retries + 1
      /\ Attempts \in Nat /\ Retries \in Nat /\ order \in Seq(Executors)
  BY Sizes, EmptySeq DEF TypeOK, Attempts
<1>2. l * Attempts \in Nat /\ (l - 1) * Attempts = l * Attempts - Attempts
  BY <1>1, Multiples
<1>3. \/ tries' = tries + 1 /\ pc' = "ready" /\ order' = order
      \/ l > 1 /\ order' = Tail(order) /\ tries' = 0 /\ pc' = "ready"
      \/ pc' = "over"
  BY Attempting, GivingUp, Zenon DEF Outcome, Again, Onward, Settle
<1>4. CASE tries' = tries + 1 /\ pc' = "ready" /\ order' = order
  BY <1>1, <1>2, <1>4 DEF Counted
<1>5. CASE l > 1 /\ order' = Tail(order) /\ tries' = 0 /\ pc' = "ready"
  <2>1. order' # <<>> /\ Len(order') = l - 1
    <3>1. Len(Tail(order)) = l - 1 /\ Tail(order) \in Seq(Executors)
      BY <1>1, HeadTailProperties, EmptySeq
    <3>2. Tail(order) # <<>>
      <4>1. Len(<<>>) = 0
        OBVIOUS
      <4>2. Tail(order) = <<>> => Len(Tail(order)) = 0
        BY <4>1, Zenon
      <4>3. QED BY <1>1, <1>5, <3>1, <4>2
    <3>3. QED BY <1>5, <3>1, <3>2
  <2>2. sent' + (l - 1) * Attempts <= m
    <3> DEFINE x == l * Attempts
               y == (l - 1) * Attempts
    <3>1. PICK w \in Nat : w = sent'
      BY <1>1
    <3>2. /\ y = x - Attempts /\ x \in Nat /\ Attempts = Retries + 1 /\ Retries \in Nat
          /\ y \in Int /\ Attempts \in Nat
          /\ m \in Nat /\ w + x <= m + tries + 1 /\ tries \in Nat /\ tries <= Retries
      BY <1>1, <1>2, <3>1
    <3> HIDE DEF x, y, m
    <3>3. w + y <= m
      BY ONLY <3>2, w \in Nat, SMTT(60)
    <3>4. QED BY <3>1, <3>3 DEF y
  <2>3. sent' + Len(order') * Attempts <= m + tries'
    <3>1. Len(order') * Attempts = (l - 1) * Attempts
      BY ONLY <2>1
    <3>2. m + tries' = m
      <4>1. m \in Nat
        BY <1>1
      <4> HIDE DEF m
      <4>2. QED BY ONLY <1>5, <4>1
    <3>3. QED BY ONLY <2>2, <3>1, <3>2
  <2>4. QED BY ONLY <1>5, <2>1, <2>3 DEF Counted
<1>6. CASE pc' = "over"
  BY <1>6 DEF Counted
<1>7. QED BY <1>3, <1>4, <1>5, <1>6

LEMMA CountedKeeps ==
  ASSUME TypeOK, Counted, Next \/ UNCHANGED vars
  PROVE  Counted'
<1> USE DEF Settle, LeaveLoop
<1>1. CASE ~Dispatch
  <2>1. UNCHANGED <<pc, order, tries, sent>>
    BY <1>1, OthersFrame
  <2>2. QED BY <2>1 DEF Counted
<1>2. CASE Begin
  <2>1. CASE order' \in Orders \ {<<>>} /\ pc' = "ready"
    <3>1. order' # <<>> /\ sent' = 0 /\ Len(order') \in Nat /\ tries' = tries /\ tries \in Nat
          /\ Len(order') <= Cardinality(Executors)
      BY <1>2, <2>1, OrdersAreLists, Sizes DEF Begin, Counted, TypeOK
    <3>2. Len(order') * Attempts <= Cardinality(Executors) * Attempts
          /\ Len(order') * Attempts \in Nat
      BY <3>1, Sizes, Multiples
    <3>3. sent' + Len(order') * Attempts <= Cardinality(Executors) * Attempts + tries'
      <4> DEFINE x == Len(order') * Attempts
                 y == Cardinality(Executors) * Attempts
      <4>1. x <= y /\ x \in Nat /\ y \in Nat /\ tries \in Nat
        BY <3>1, <3>2, Sizes
      <4> HIDE DEF x, y
      <4>2. 0 + x <= y + tries
        BY ONLY <4>1
      <4>3. QED BY <3>1, <4>2 DEF x, y
    <3>4. QED BY <2>1, <3>1, <3>3 DEF Counted
  <2>2. CASE pc' = "over"
    BY <2>2 DEF Counted
  <2>3. QED BY <1>2, <2>1, <2>2 DEF Begin
<1>3. CASE Post \/ PostUnconnected
  <2>1. pc = "ready" /\ sent' = sent + 1
    BY <1>3, Zenon DEF Post, PostUnconnected
  <2>2. order # <<>> /\ sent' \in Sends /\ sent' >= 1
        /\ sent' + Len(order) * Attempts <= Cardinality(Executors) * Attempts + tries + 1
    <3> DEFINE x == Len(order) * Attempts
               y == Cardinality(Executors) * Attempts
    <3>1. /\ x \in Int /\ y \in Nat /\ sent \in Nat /\ tries \in Nat /\ order # <<>>
          /\ sent + x <= y + tries
      BY <2>1, Sizes, Room DEF Counted, TypeOK
    <3>2. sent' \in Sends
      BY <2>1, Room
    <3> HIDE DEF x, y
    <3>3. sent' + x <= y + tries + 1 /\ sent' >= 1
      BY ONLY <2>1, <3>1
    <3>4. QED BY <3>1, <3>2, <3>3 DEF x, y
  <2>3. CASE Post
    <3>1. pc' = "posting" /\ UNCHANGED <<order, tries>>
      BY <2>3 DEF Post
    <3>2. QED BY <2>2, <3>1 DEF Counted
  <2>4. CASE PostUnconnected
    <3>1. \E d : AttemptFails(d) \/ GiveUpOn(d)
      BY <2>4, Zenon DEF PostUnconnected
    <3>2. QED BY <2>2, <3>1, AttemptCounted
  <2>5. QED BY <1>3, <2>3, <2>4
<1>4. CASE PostAnswered \/ PostUnanswered
  <2>1. pc = "posting" /\ sent' = sent
    BY <1>4, Zenon DEF PostAnswered, PostUnanswered
  <2>2. order # <<>> /\ sent' \in Sends
        /\ sent' + Len(order) * Attempts <= Cardinality(Executors) * Attempts + tries + 1
    BY <2>1, Sizes DEF Counted, TypeOK
  <2>3. pc' \in {"poll", "over"} \/ (\E d : AttemptFails(d) \/ GiveUpOn(d))
    <3>1. pc' = "poll" \/ pc' = "over" \/ (\E d : AttemptFails(d) \/ GiveUpOn(d))
      BY <1>4, Zenon DEF PostAnswered, PostUnanswered
    <3>2. QED BY <3>1
  <2>4. QED BY <2>2, <2>3, AttemptCounted DEF Counted
<1>5. CASE Withdraw \/ PollNext \/ PollAnswered \/ PollFails \/ Breaks \/ Finalize
  <2>1. pc' \in {"over", "getting", "poll", "final"}
    BY <1>5 DEF Withdraw, PollNext, PollAnswered, PollFails, Breaks, Finalize
  <2>2. QED BY <2>1 DEF Counted
<1>6. QED BY <1>1, <1>2, <1>3, <1>4, <1>5, Zenon DEF Dispatch

-----------------------------------------------------------------------------
(***************************************************************************)
(* POSTs and runs.                                                         *)
(***************************************************************************)

\* What a step of the coordinator does to the POSTs: it sends one, or none.
Sending ==
  /\ pc = "ready" /\ pc' = "posting"
  /\ sent' = sent + 1
  /\ url' = Head(order)
  /\ net' = [net EXCEPT ![sent'] = "wire"]
  /\ to' = [to EXCEPT ![sent'] = url']
  /\ UNCHANGED <<order, ambiguous, reply, seen, status, why>>

NoSending ==
  /\ UNCHANGED netVars
  /\ sent' = sent \/ (pc = "ready" /\ sent' = sent + 1)

LEMMA DispatchSends ==
  ASSUME Dispatch
  PROVE  (Sending \/ NoSending) /\ UNCHANGED execVars /\ UNCHANGED syncVars
<1>1. CASE Post
  BY <1>1, Zenon DEF Post, Sending
<1>2. CASE ~Post
  BY <1>2, Zenon
  DEF Dispatch, Begin, Withdraw, PostUnconnected, PostAnswered, PostUnanswered,
      PollNext, PollAnswered, PollFails, Breaks, Finalize, NoSending
<1>3. QED BY <1>1, <1>2

\* The runs that are there stay where they are.
LEMMA RunsStay ==
  ASSUME TypeOK, Counted, Numbered, Dispatch
  PROVE  \A n \in Sends : run[n] # "none" => to'[n] = to[n]
<1>1. CASE Sending
  <2>1. sent + 1 \in Sends /\ sent \in Nat
    BY <1>1, Room DEF Sending
  <2>2. run[sent + 1] = "none"
    BY <2>1 DEF Numbered
  <2>3. QED BY <1>1, <2>1, <2>2 DEF Sending, TypeOK
<1>2. QED BY <1>1, DispatchSends DEF NoSending, netVars

\* What any other step does: an executor accepts a POST, or disposes of it otherwise; a run
\* that is under way goes on or ends; an executor crashes; a GET is answered; or nothing
\* of this happens.
Accepting(n) ==
  /\ net[n] \in {"wire", "checking"}
  /\ net[n] = "checking" \/ table[to[n]] = 0
  /\ table' = [table EXCEPT ![to[n]] = n]
  /\ run' = [run EXCEPT ![n] = "QUEUED"]
  /\ net' = [net EXCEPT ![n] = "gone"]
  /\ reply' = IF pc = "posting" /\ n = sent THEN "ok" ELSE reply
  /\ UNCHANGED <<to, loaded, seen, status, crashes>>

Declining(n) ==
  /\ net[n] \in {"wire", "checking"}
  /\ \/ net' = [net EXCEPT ![n] = "gone"] /\ (reply' = reply \/ (pc = "posting" /\ n = sent))
     \/ SyncOn /\ net' = [net EXCEPT ![n] = "checking"] /\ reply' = reply
  /\ UNCHANGED <<to, table, run, loaded, seen, status, crashes>>

Moving(n, s) ==
  /\ run' = [run EXCEPT ![n] = s]
  /\ \/ run[n] = "QUEUED" /\ s \in {"WRITING", "CANCELLED"} /\ loaded' = loaded
     \/ run[n] = "WRITING" /\ s = "WRITING" /\ loaded' = loaded \union {n}
     \/ run[n] = "WRITING" /\ s = "FAILED" /\ loaded' = loaded
     \/ run[n] = "WRITING" /\ s \in {"CANCELLED", "DONE"} /\ n \in loaded /\ loaded' = loaded
  /\ UNCHANGED <<net, to, table, reply, seen, status, crashes>>

Nothing ==
  /\ status' \in {status, "CANCELLED"}
  /\ UNCHANGED <<net, to, table, run, loaded, reply, seen, crashes>>

LEMMA OtherSteps ==
  ASSUME TypeOK, Next \/ UNCHANGED vars, ~Dispatch
  PROVE  \/ \E n \in Sends : Accepting(n) \/ Declining(n)
         \/ \E n \in Sends, s \in Statuses : Moving(n, s)
         \/ \E e \in Executors : Crash(e)
         \/ GetArrives
         \/ Nothing
<1> USE DEF dispVars, taskVars, jobVars, netVars, execVars, syncVars
<1>1. ASSUME NEW n \in Sends, Request(n)
      PROVE  Accepting(n) \/ Declining(n)
  <2> USE DEF Accept, Decline, Answer
  <2>1. CASE PostArrives(n)
    BY <2>1 DEF PostArrives, Accepting, Declining
  <2>2. CASE PostChecked(n)
    BY <2>2 DEF PostChecked, Accepting, Declining
  <2>3. QED BY <1>1, <2>1, <2>2 DEF Request
<1>2. ASSUME NEW n \in Sends, Run(n)
      PROVE  \E s \in Statuses : Moving(n, s)
  <2>1. PICK s \in Statuses :
          /\ run' = [run EXCEPT ![n] = s]
          /\ \/ run[n] = "QUEUED" /\ s = "WRITING" /\ loaded' = loaded
             \/ run[n] = "WRITING" /\ s = "WRITING" /\ loaded' = loaded \union {n}
             \/ run[n] = "WRITING" /\ s = "FAILED" /\ loaded' = loaded
             \/ run[n] = "WRITING" /\ s \in {"CANCELLED", "DONE"} /\ n \in loaded /\ loaded' = loaded
    <3>1. CASE RunStarts(n)
      BY <3>1 DEF RunStarts, Statuses
    <3>2. CASE RunLoads(n)
      <4>1. run' = [run EXCEPT ![n] = "WRITING"]
        BY <3>2 DEF RunLoads, TypeOK
      <4>2. QED BY <3>2, <4>1 DEF RunLoads, Statuses
    <3>3. CASE RunFails(n)
      BY <3>3 DEF RunFails, Statuses, Terminal
    <3>4. CASE RunEnds(n)
      <4>1. PICK s \in {"CANCELLED", "DONE"} : run' = [run EXCEPT ![n] = s]
        BY <3>4 DEF RunEnds
      <4>2. QED BY <3>4, <4>1 DEF RunEnds, Statuses, Terminal
    <3>5. QED BY <1>2, <3>1, <3>2, <3>3, <3>4 DEF Run
  <2>2. UNCHANGED <<net, to, table, reply, seen, status, crashes>>
    BY <1>2, Zenon DEF Run, RunStarts, RunLoads, RunFails, RunEnds
  <2>3. QED BY <2>1, <2>2 DEF Moving
<1>3. ASSUME NEW e \in Executors, CancelAt(e), loaded' = loaded,
             UNCHANGED <<net, to, table, reply, seen, status, crashes>>
      PROVE  (\E n \in Sends, s \in Statuses : Moving(n, s)) \/ Nothing
  <2>1. table[e] \in Sends \union {0}
    BY DEF TypeOK
  <2>2. CASE run' = run
    BY <1>3, <2>2 DEF Nothing
  <2>3. CASE table[e] \in Sends /\ run[table[e]] = "QUEUED"
    <3>1. run' = [run EXCEPT ![table[e]] = "CANCELLED"]
      BY <1>3, <2>3 DEF CancelAt, Terminal, Sends
    <3>2. Moving(table[e], "CANCELLED") /\ "CANCELLED" \in Statuses
      BY <1>3, <2>3, <3>1 DEF Moving, Statuses, Terminal
    <3>3. QED BY <2>3, <3>2
  <2>4. QED BY <1>3, <2>1, <2>2, <2>3 DEF CancelAt
<1>4. CASE CancelArrives
  <2>1. xmsg \in Executors
    BY <1>4 DEF CancelArrives, TypeOK
  <2>2. CancelAt(xmsg) /\ loaded' = loaded
        /\ UNCHANGED <<net, to, table, reply, seen, status, crashes>>
    BY <1>4, Zenon DEF CancelArrives
  <2>3. QED BY <1>3, <2>1, <2>2
<1>5. ASSUME NEW e \in Executors, OperatorCancels(e)
      PROVE  (\E n \in Sends, s \in Statuses : Moving(n, s)) \/ Nothing
  <2>1. CancelAt(e) /\ loaded' = loaded
        /\ UNCHANGED <<net, to, table, reply, seen, status, crashes>>
    BY <1>5, Zenon DEF OperatorCancels
  <2>2. QED BY <1>3, <2>1
<1>6. ASSUME CancelJob \/ Switch \/ UNCHANGED vars \/ (\E e \in Executors : CatchUp(e))
      PROVE  Nothing
  BY <1>6 DEF CancelJob, CancelAsk, CancelFlag, CancelSend, CancelReturns, Switch, CatchUp,
              vars, Nothing
<1>7. QED
  BY <1>1, <1>2, <1>4, <1>5, <1>6, Zenon DEF Next, Idle

LEMMA NumberedKeeps ==
  ASSUME TypeOK, Counted, Numbered, Next \/ UNCHANGED vars
  PROVE  Numbered'
<1> USE DEF Numbered
<1>1. CASE Dispatch
  <2>1. (Sending \/ NoSending) /\ UNCHANGED run
    BY <1>1, DispatchSends DEF execVars
  <2>2. CASE Sending
    <3>1. sent + 1 \in Sends /\ sent \in Nat /\ sent' = sent + 1
      BY <2>2, Room DEF Sending
    <3>2. order # <<>> /\ order \in Seq(Executors)
      BY <2>2 DEF Sending, Counted, TypeOK
    <3>3. url' \in Executors
      BY <2>2, <3>2 DEF Sending
    <3>4. ASSUME NEW n \in Sends
          PROVE  /\ net'[n] = IF n = sent + 1 THEN "wire" ELSE net[n]
                 /\ to'[n] = IF n = sent + 1 THEN url' ELSE to[n]
      BY <2>2, <3>1 DEF Sending, TypeOK
    <3>5. ASSUME NEW n \in Sends
          PROVE  /\ n > sent' => net'[n] = "unsent" /\ run'[n] = "none"
                 /\ net'[n] # "unsent" \/ run'[n] # "none" => to'[n] \in Executors
                 /\ net'[n] # "gone" => run'[n] = "none"
                 /\ net'[n] = "checking" => SyncOn
      <4>1. n \in Nat
        BY Sizes
      <4>2. CASE n = sent + 1
        BY <2>1, <3>1, <3>3, <3>4, <4>1, <4>2
      <4>3. CASE n # sent + 1
        BY <2>1, <3>1, <3>4, <4>1, <4>3
      <4>4. QED BY <4>2, <4>3
    <3>6. QED BY <3>5, Zenon
  <2>3. CASE NoSending
    <3>1. \A n \in Sends : n > sent' => n > sent
      <4>1. \A n \in Sends : n \in Nat
        BY Sizes
      <4>2. sent \in Nat
        BY Sizes DEF TypeOK
      <4>3. QED BY <2>3, <4>1, <4>2 DEF NoSending
    <3>2. QED BY <2>1, <2>3, <3>1 DEF NoSending, netVars
  <2>4. QED BY <2>1, <2>2, <2>3
<1>2. CASE ~Dispatch
  <2>1. sent' = sent
    BY <1>2, OthersFrame
  <2>2. ASSUME NEW n \in Sends, Accepting(n) \/ Declining(n) PROVE Numbered'
    BY <2>1, <2>2 DEF Accepting, Declining, TypeOK
  <2>3. ASSUME NEW n \in Sends, NEW s \in Statuses, Moving(n, s) PROVE Numbered'
    BY <2>1, <2>3 DEF Moving, TypeOK
  <2>4. ASSUME NEW e \in Executors, Crash(e) PROVE Numbered'
    BY <2>1, <2>4 DEF Crash, TypeOK
  <2>5. CASE GetArrives \/ Nothing
    BY <2>1, <2>5 DEF GetArrives, Nothing, netVars, execVars
  <2>6. QED BY <1>2, <2>2, <2>3, <2>4, <2>5, OtherSteps
<1>3. QED BY <1>1, <1>2

LEMMA TabledKeeps ==
  ASSUME TypeOK, Counted, Numbered, Tabled, Next \/ UNCHANGED vars
  PROVE  Tabled'
<1> USE DEF Tabled
<1>1. \A e \in Executors : table[e] # 0 => table[e] \in Sends
  BY DEF TypeOK
<1>2. CASE Dispatch
  <2>1. (Sending \/ NoSending) /\ UNCHANGED <<run, table>>
    BY <1>2, DispatchSends DEF execVars
  <2>2. CASE Sending
    <3>1. sent + 1 \in Sends /\ sent \in Nat /\ sent' = sent + 1
      BY <2>2, Room DEF Sending
    <3>2. run[sent + 1] = "none"
      BY <3>1 DEF Numbered
    <3>3. \A n \in Sends : n # sent + 1 => to'[n] = to[n]
      BY <2>2, <3>1 DEF Sending, TypeOK
    <3>4. QED BY <1>1, <2>1, <3>2, <3>3 DEF Statuses, Terminal
  <2>3. CASE NoSending
    BY <2>1, <2>3 DEF NoSending, netVars
  <2>4. QED BY <2>1, <2>2, <2>3
<1>3. CASE ~Dispatch
  <2>1. ASSUME NEW n \in Sends, Accepting(n) PROVE Tabled'
    BY <1>1, <2>1 DEF Accepting, TypeOK, Statuses
  <2>2. ASSUME NEW n \in Sends, Declining(n) PROVE Tabled'
    BY <2>2 DEF Declining
  <2>3. ASSUME NEW n \in Sends, NEW s \in Statuses, Moving(n, s) PROVE Tabled'
    BY <1>1, <2>3 DEF Moving, TypeOK
  <2>4. ASSUME NEW e \in Executors, Crash(e) PROVE Tabled'
    <3>1. UNCHANGED to /\ table' = [table EXCEPT ![e] = 0]
      BY <2>4, Zenon DEF Crash, netVars
    <3>2. \A n \in Sends : to[n] # e => run'[n] = run[n]
      BY <2>4 DEF Crash
    <3>3. QED BY <1>1, <3>1, <3>2 DEF TypeOK
  <2>5. CASE GetArrives \/ Nothing
    BY <2>5 DEF GetArrives, Nothing, netVars, execVars
  <2>6. QED BY <1>3, <2>1, <2>2, <2>3, <2>4, <2>5, OtherSteps
<1>4. QED BY <1>2, <1>3

LEMMA RecordedKeeps ==
  ASSUME TypeOK, Numbered, Tabled, Recorded, Next \/ UNCHANGED vars
  PROVE  Recorded'
<1> DEFINE OfRuns == \A n \in Sends :
                       /\ n \in loaded => run[n] \notin {"none", "QUEUED"}
                       /\ run[n] = "DONE" => n \in loaded
<1>1. CASE Dispatch
  <2>1. UNCHANGED <<run, loaded>>
    BY <1>1, DispatchSends DEF execVars
  <2>2. /\ status' = "DONE" => status = "DONE" \/ seen = "DONE"
        /\ seen' # "none" => seen' = seen
        /\ seen' # "none" => pc' = "getting"
    <3> USE DEF Recorded, Settle, LeaveLoop, taskVars
    <3>1. ASSUME NEW d, AttemptFails(d) \/ GiveUpOn(d)
          PROVE  status' = status \/ status' = "FAILED"
      BY <3>1, Attempting, GivingUp, Zenon DEF Outcome, Again, Onward
    <3>2. CASE Begin \/ Withdraw \/ Post
      BY <3>2 DEF Begin, Withdraw, Post
    <3>3. CASE PostUnconnected \/ PostAnswered \/ PostUnanswered
      <4>1. pc \in {"ready", "posting"} /\ seen' = seen
        BY <3>3, Zenon DEF PostUnconnected, PostAnswered, PostUnanswered
      <4>2. status' = status \/ status' = "FAILED"
        BY <3>1, <3>3, Zenon DEF PostUnconnected, PostAnswered, PostUnanswered
      <4>3. QED BY <4>1, <4>2
    <3>4. CASE PollNext
      BY <3>4 DEF PollNext
    <3>5. CASE PollAnswered
      BY <3>5 DEF PollAnswered
    <3>6. CASE PollFails
      BY <3>6 DEF PollFails
    <3>7. CASE Finalize
      BY <3>7 DEF Finalize
    <3>8. CASE Breaks
      BY <3>8, Breaking
    <3>9. QED BY <1>1, <3>2, <3>3, <3>4, <3>5, <3>6, <3>7, <3>8 DEF Dispatch
  <2>3. QED BY <2>1, <2>2 DEF Recorded
<1>2. CASE ~Dispatch
  <2>1. pc' = pc
    BY <1>2, OthersFrame
  <2>2. ASSUME NEW n \in Sends, Accepting(n)
        PROVE  OfRuns' /\ loaded \subseteq loaded' /\ UNCHANGED <<seen, status>>
    BY <2>2 DEF Accepting, TypeOK, Numbered, Recorded
  <2>3. ASSUME NEW n \in Sends, NEW s \in Statuses, Moving(n, s)
        PROVE  OfRuns' /\ loaded \subseteq loaded' /\ UNCHANGED <<seen, status>>
    BY <2>3 DEF Moving, TypeOK, Recorded
  <2>4. ASSUME NEW e \in Executors, Crash(e)
        PROVE  OfRuns' /\ loaded \subseteq loaded' /\ UNCHANGED <<seen, status>>
    <3>1. UNCHANGED <<seen, status>>
      BY <2>4 DEF Crash, dispVars, taskVars
    <3>2. loaded \subseteq loaded'
      BY <2>4 DEF Crash
    <3>3. OfRuns'
      BY <2>4 DEF Crash, TypeOK, Recorded
    <3>4. QED BY <3>1, <3>2, <3>3
  <2>5. CASE GetArrives
    <3>1. OfRuns' /\ loaded' = loaded /\ status' = status
      BY <2>5 DEF GetArrives, taskVars, execVars, Recorded
    <3>2. seen' = "DONE" => loaded # {}
      BY <2>5 DEF GetArrives, Recorded, TypeOK
    <3>3. pc = "getting"
      BY <2>5 DEF GetArrives
    <3>4. QED BY <2>1, <3>1, <3>2, <3>3 DEF Recorded
  <2>6. CASE Nothing \/ (\E n \in Sends : Declining(n))
    <3>1. UNCHANGED <<run, loaded, seen>> /\ status' \in {status, "CANCELLED"}
      BY <2>6 DEF Nothing, Declining
    <3>2. QED BY <2>1, <3>1 DEF Recorded
  <2>7. ASSUME OfRuns', loaded \subseteq loaded', UNCHANGED <<seen, status>> PROVE Recorded'
    BY <2>1, <2>7 DEF Recorded
  <2>8. QED BY <1>2, <2>2, <2>3, <2>4, <2>5, <2>6, <2>7, OtherSteps
<1>3. QED BY <1>1, <1>2

-----------------------------------------------------------------------------
(***************************************************************************)
(* One executor.                                                           *)
(***************************************************************************)

\* Nothing comes to life but by the coordinator, and no POST to be declined stays alive.
LEMMA OthersLive ==
  ASSUME TypeOK, Numbered, Next \/ UNCHANGED vars, ~Dispatch
  PROVE  /\ \A n \in Sends : Live(n)' => Live(n)
         /\ to' = to
         /\ reply' = reply \/ (pc = "posting" /\ (reply' = "ok" \/ ~Live(sent)'))
<1> USE DEF Live
<1>0. sent' = sent
  BY OthersFrame
<1>1. ASSUME NEW n \in Sends, Accepting(n)
      PROVE  /\ \A m \in Sends : Live(m)' => Live(m)
             /\ to' = to /\ (reply' = reply \/ (pc = "posting" /\ reply' = "ok"))
  BY <1>1 DEF Accepting, TypeOK
<1>2. ASSUME NEW n \in Sends, Declining(n)
      PROVE  /\ \A m \in Sends : Live(m)' => Live(m)
             /\ to' = to /\ (reply' = reply \/ (pc = "posting" /\ ~Live(sent)'))
  BY <1>0, <1>2 DEF Declining, TypeOK, Numbered
<1>3. ASSUME NEW n \in Sends, NEW s \in Statuses, Moving(n, s)
      PROVE  /\ \A m \in Sends : Live(m)' => Live(m)
             /\ to' = to /\ reply' = reply
  BY <1>3 DEF Moving, TypeOK
<1>4. ASSUME NEW e \in Executors, Crash(e)
      PROVE  /\ \A m \in Sends : Live(m)' => Live(m)
             /\ to' = to /\ reply' = reply
  BY <1>4 DEF Crash, TypeOK, dispVars
<1>5. CASE GetArrives \/ Nothing
  BY <1>5 DEF GetArrives, Nothing, netVars, execVars
<1>6. QED BY <1>1, <1>2, <1>3, <1>4, <1>5, OtherSteps

\* A failed attempt, or a candidate given up: d, that the attempt was surely not accepted.
LEMMA AttemptTargeted ==
  ASSUME NEW d, AttemptFails(d), UNCHANGED <<net, to, run>>, reply' = "none",
         \A n \in Sends : Live(n) => to[n] = url' /\ Head(order) = url' /\ (d => ambiguous),
         why \notin {"exhausted", "noCandidate"}
  PROVE  Targeted' /\ Exhausted'
<1>1. \A n \in Sends : Live(n)' <=> Live(n)
  BY DEF Live
<1>2. CASE Again(d)
  <2>1. \A n \in Sends : Live(n) => ambiguous'
    BY <1>2, Zenon DEF Again
  <2>2. pc' = "ready" /\ order' = order /\ why' = why
    BY <1>2, Zenon DEF Again
  <2>3. QED BY <1>1, <2>1, <2>2 DEF Targeted, Exhausted
<1>3. CASE Settle("FAILED", "unclear")
  <2>1. pc' = "over" /\ why' = "unclear"
    BY <1>3 DEF Settle
  <2>2. QED BY <1>1, <2>1 DEF Targeted, Exhausted
<1>4. CASE d /\ ~ambiguous /\ (Onward \/ Settle("FAILED", "exhausted"))
  <2>1. \A n \in Sends : ~Live(n)
    BY <1>4, Zenon
  <2>2. (pc' = "ready" /\ why' = why) \/ pc' = "over"
    BY <1>4, Zenon DEF Onward, Settle
  <2>3. \A n \in Sends : ~Live(n)'
    BY <1>1, <2>1, Zenon
  <2>4. Targeted'
    BY <2>2, <2>3 DEF Targeted
  <2>5. Exhausted'
    BY <2>2, <2>3 DEF Exhausted
  <2>6. QED BY <2>4, <2>5
<1>5. Outcome(d)
  BY Attempting, Zenon
<1>6. QED BY <1>2, <1>3, <1>4, <1>5, Zenon DEF Outcome

LEMMA TargetedKeeps ==
  ASSUME TypeOK, Counted, Numbered, Targeted, Exhausted, Next \/ UNCHANGED vars
  PROVE  Targeted' /\ Exhausted'
<1> USE DEF Settle, LeaveLoop
<1>1. CASE ~Dispatch
  <2>1. UNCHANGED <<pc, order, ambiguous, sent, url, why>>
    BY <1>1, OthersFrame
  <2>2. /\ \A n \in Sends : Live(n)' => Live(n)
        /\ to' = to
        /\ reply' = reply \/ (pc = "posting" /\ (reply' = "ok" \/ ~Live(sent)'))
    BY <1>1, OthersLive
  <2>3. sent \in Sends \/ sent = 0
    BY DEF TypeOK
  <2>4. reply' \in {"busy", "mismatch"} => ~Live(sent)'
    <3>1. reply \in {"busy", "mismatch"} => pc = "posting"
      BY DEF Targeted
    <3>2. pc = "posting" => sent \in Sends
      BY Sizes DEF Counted, TypeOK
    <3>3. QED BY <2>1, <2>2, <3>1, <3>2 DEF Targeted
  <2>5. Targeted'
    BY <2>1, <2>2, <2>4 DEF Targeted
  <2>6. Exhausted'
    BY <2>1, <2>2 DEF Exhausted
  <2>7. QED BY <2>5, <2>6
<1>2. ASSUME UNCHANGED <<net, to, run>> PROVE \A n \in Sends : (Live(n)' <=> Live(n))
  BY <1>2 DEF Live
<1>3. CASE Post
  <2>1. Sending /\ UNCHANGED run
    BY <1>3, Zenon DEF Post, Sending, execVars
  <2>2. sent + 1 \in Sends /\ sent \in Nat
    BY <2>1, Room DEF Sending
  <2>3. \A n \in Sends : n # sent + 1 => (Live(n)' <=> Live(n)) /\ to'[n] = to[n]
    BY <2>1, <2>2 DEF Sending, Live, TypeOK
  <2>4. to'[sent + 1] = url'
    BY <2>1, <2>2 DEF Sending, TypeOK
  <2>5. \A n \in Sends : Live(n) => ambiguous /\ to[n] = url /\ url' = url
    BY <2>1, Zenon DEF Sending, Targeted
  <2>6. reply = "none" /\ why \notin {"exhausted", "noCandidate"}
    BY <2>1 DEF Sending, Targeted, Exhausted
  <2>7. /\ pc' = "posting" /\ sent' = sent + 1 /\ Head(order)' = url'
        /\ UNCHANGED <<ambiguous, reply, why>>
    BY <2>1 DEF Sending
  <2>8. \A n \in Sends : Live(n)' => to'[n] = url' /\ (n = sent' \/ ambiguous')
    BY <2>3, <2>4, <2>5, <2>7
  <2>9. QED BY <2>6, <2>7, <2>8 DEF Targeted, Exhausted
<1>4. CASE PostUnconnected
  <2>1. /\ AttemptFails(TRUE) /\ UNCHANGED <<net, to, run>> /\ reply' = reply
        /\ pc = "ready" /\ url' = Head(order)
    BY <1>4 DEF PostUnconnected, netVars, execVars
  <2>2. reply' = "none" /\ why \notin {"exhausted", "noCandidate"}
    BY <2>1 DEF Targeted, Exhausted
  <2>3. \A n \in Sends : Live(n) => to[n] = url' /\ Head(order) = url' /\ (TRUE => ambiguous)
    BY <2>1, Zenon DEF Targeted
  <2>4. QED BY <2>1, <2>2, <2>3, AttemptTargeted, Zenon
<1>5. CASE PostAnswered
  <2>1. UNCHANGED <<net, to, run, url>> /\ reply' = "none" /\ pc = "posting"
    BY <1>5, Zenon DEF PostAnswered, netVars, execVars
  <2>2. why \notin {"exhausted", "noCandidate"}
    BY <2>1 DEF Exhausted
  <2>3. \A n \in Sends : Live(n) => to[n] = url' /\ Head(order) = url'
                                  /\ (n = sent \/ ambiguous)
    BY <2>1, Zenon DEF Targeted
  <2>4. CASE reply \in {"busy", "mismatch"}
    <3>1. ~Live(sent)
      BY <2>4 DEF Targeted
    <3>2. \A n \in Sends : Live(n) => ambiguous
      BY <2>3, <3>1, Zenon
    <3>3. CASE AttemptFails(TRUE)
      <4>1. \A n \in Sends : Live(n) => to[n] = url' /\ Head(order) = url' /\ (TRUE => ambiguous)
        BY <2>3, <3>2, Zenon
      <4>2. QED BY <2>1, <2>2, <3>3, <4>1, AttemptTargeted, Zenon
    <3>4. CASE GiveUpOn(ambiguous)
      <4>1. CASE pc' = "over" /\ why' = "unclear"
        BY <1>2, <2>1, <2>3, <4>1 DEF Targeted, Exhausted
      <4>2. CASE ~ambiguous /\ (Onward \/ Settle("FAILED", "exhausted"))
        <5>1. \A n \in Sends : ~Live(n)'
          BY <1>2, <2>1, <3>2, <4>2, Zenon
        <5>2. (pc' = "ready" /\ why' = why) \/ pc' = "over"
          BY <4>2, Zenon DEF Onward
        <5>3. Targeted'
          BY <2>1, <5>1, <5>2 DEF Targeted
        <5>4. Exhausted'
          BY <2>2, <5>1, <5>2 DEF Exhausted
        <5>5. QED BY <5>3, <5>4
      <4>3. QED BY <3>4, <4>1, <4>2, GivingUp, Zenon
    <3>5. QED BY <1>5, <2>4, <3>3, <3>4, Zenon DEF PostAnswered
  <2>5. CASE reply \notin {"busy", "mismatch"}
    <3>1. pc' \in {"poll", "over"} /\ why' \in {why, "conflict"}
      <4>1. (pc' = "poll" /\ why' = why) \/ (pc' = "over" /\ why' = "conflict")
        BY <1>5, <2>5, Zenon DEF PostAnswered
      <4>2. QED BY <4>1
    <3>2. QED BY <1>2, <2>1, <2>2, <2>3, <3>1 DEF Targeted, Exhausted
  <2>6. QED BY <2>4, <2>5
<1>6. CASE PostUnanswered
  <2>1. /\ AttemptFails(FALSE) /\ UNCHANGED <<net, to, run, url>> /\ reply' = "none"
        /\ pc = "posting"
    BY <1>6, Zenon DEF PostUnanswered, netVars, execVars
  <2>2. why \notin {"exhausted", "noCandidate"}
    BY <2>1 DEF Exhausted
  <2>3. \A n \in Sends : Live(n) => to[n] = url' /\ Head(order) = url' /\ (FALSE => ambiguous)
    BY <2>1, Zenon DEF Targeted
  <2>4. QED BY <2>1, <2>2, <2>3, AttemptTargeted, Zenon
<1>7. CASE Begin
  <2>1. UNCHANGED <<net, to, run, url>> /\ reply' = reply /\ pc = "queued" /\ pc' # "queued"
        /\ pc' # "posting"
    BY <1>7 DEF Begin, netVars, execVars
  <2>2. why' \in {"exhausted", "noCandidate"} => pc' = "over" \/ why' = why
    BY <1>7 DEF Begin
  <2>3. \A n \in Sends : ~Live(n)'
    BY <1>2, <2>1 DEF Targeted
  <2>4. QED BY <2>1, <2>2, <2>3 DEF Targeted, Exhausted
<1>8. CASE Withdraw \/ PollNext \/ PollAnswered \/ PollFails \/ Finalize
  <2>1. /\ UNCHANGED <<net, to, run, url, reply>> /\ pc # "posting" /\ pc # "queued"
        /\ pc' \in {"over", "final", "poll", "getting"}
    BY <1>8 DEF Withdraw, PollNext, PollAnswered, PollFails, Finalize, taskVars, netVars, execVars
  <2>2. why' \in {"exhausted", "noCandidate"} => why' = why /\ pc' \in {"over", "final"}
    BY <1>8 DEF Withdraw, PollNext, PollAnswered, PollFails, Finalize, taskVars, Exhausted
  <2>3. QED BY <1>2, <2>1, <2>2 DEF Targeted, Exhausted
<1>9. CASE Breaks
  <2>1. /\ UNCHANGED <<net, to, run>> /\ reply' = "none" /\ pc' = "over" /\ why' = "broken"
        /\ url' = url \/ (pc = "ready" /\ url' = Head(order))
    BY <1>9, Breaking DEF netVars, execVars
  <2>2. \A n \in Sends : Live(n) => to[n] = url'
    BY <2>1, Zenon DEF Targeted
  <2>3. QED BY <1>2, <2>1, <2>2 DEF Targeted, Exhausted
<1>10. QED BY <1>1, <1>3, <1>4, <1>5, <1>6, <1>7, <1>8, <1>9, Zenon DEF Dispatch

-----------------------------------------------------------------------------
(***************************************************************************)
(* The reported failure.                                                   *)
(***************************************************************************)
LEMMA DispatchReports ==
  ASSUME Recorded, Reported, Dispatch
  PROVE  /\ why' = "reported" => pc' \in Polled /\ url' = url
         /\ why' = "reported" /\ status' = "FAILED" =>
              (why = "reported" /\ status = "FAILED") \/ seen = "FAILED"
         /\ seen' = "FAILED" => seen = "FAILED" /\ url' = url
<1> USE DEF Settle, LeaveLoop, taskVars, Polled, Recorded, Reported
<1>1. ASSUME NEW d, AttemptFails(d) \/ GiveUpOn(d)
      PROVE  (why' = why /\ status' = status) \/ why' = "unclear" \/ why' = "exhausted"
  BY <1>1, Attempting, GivingUp, Zenon DEF Outcome, Again, Onward
<1>2. CASE Begin
  BY <1>2 DEF Begin
<1>3. CASE Withdraw \/ Post
  BY <1>3 DEF Withdraw, Post
<1>4. CASE PostUnconnected \/ PostAnswered \/ PostUnanswered
  <2>1. pc \in {"ready", "posting"} /\ seen' = seen
    BY <1>4, Zenon DEF PostUnconnected, PostAnswered, PostUnanswered
  <2>2. (why' = why /\ status' = status) \/ why' = "unclear" \/ why' = "exhausted" \/ why' = "conflict"
    <3>1. CASE PostUnconnected \/ PostUnanswered
      BY <1>1, <3>1, Zenon DEF PostUnconnected, PostUnanswered
    <3>2. CASE PostAnswered
      <4>1. \/ UNCHANGED <<status, why>> \/ why' = "conflict"
            \/ \E d : AttemptFails(d) \/ GiveUpOn(d)
        BY <3>2, Zenon DEF PostAnswered
      <4>2. QED BY <1>1, <4>1
    <3>3. QED BY <1>4, <3>1, <3>2
  <2>3. QED BY <2>1, <2>2
<1>5. CASE PollNext
  BY <1>5 DEF PollNext
<1>6. CASE PollAnswered
  BY <1>6 DEF PollAnswered
<1>7. CASE PollFails
  BY <1>7 DEF PollFails
<1>8. CASE Finalize
  BY <1>8 DEF Finalize
<1>9. CASE Breaks
  BY <1>9, Breaking
<1>10. QED BY <1>2, <1>3, <1>4, <1>5, <1>6, <1>7, <1>8, <1>9 DEF Dispatch

LEMMA ReportedKeeps ==
  ASSUME TypeOK, Counted, Numbered, Recorded, Reported, Next \/ UNCHANGED vars
  PROVE  Reported'
<1> DEFINE Present == \A n \in Sends : run[n] # "none" => table[to[n]] = n
<1>1. CASE Dispatch
  <2>1. UNCHANGED <<run, table, crashes>> /\ (Sending \/ NoSending)
    BY <1>1, DispatchSends DEF execVars, syncVars
  <2>2. Plain' <=> Plain
    BY <2>1 DEF Plain
  <2>3. Plain => Present'
    BY <1>1, <2>1, RunsStay DEF Reported
  <2>4. ASSUME url' = url PROVE RunFailed' <=> RunFailed
    BY <2>1, <2>4 DEF RunFailed
  <2>5. why' = "reported" => pc' \in Polled
    BY <1>1, DispatchReports
  <2>6. Plain /\ status' = "FAILED" /\ why' = "reported" => RunFailed'
    BY <1>1, <2>4, DispatchReports DEF Reported
  <2>7. Plain /\ seen' = "FAILED" => RunFailed'
    BY <1>1, <2>4, DispatchReports DEF Reported
  <2>8. QED BY <2>2, <2>3, <2>5, <2>6, <2>7 DEF Reported
<1>2. CASE ~Dispatch
  <2>1. UNCHANGED <<pc, url, why>>
    BY <1>2, OthersFrame
  <2>2. ASSUME NEW n \in Sends, Accepting(n), Plain
        PROVE  Present' /\ (RunFailed => RunFailed')
    <3>1. table[to[n]] = 0 /\ to[n] \in Executors /\ run[n] = "none"
      BY <2>2 DEF Accepting, Plain, Numbered
    <3>2. /\ table'[to[n]] = n /\ \A e \in Executors : e # to[n] => table'[e] = table[e]
          /\ \A m \in Sends : m # n => run'[m] = run[m]
          /\ to' = to
      BY <2>2, <3>1 DEF Accepting, TypeOK
    <3>3. Present'
      <4>1. SUFFICES ASSUME NEW m \in Sends, run'[m] # "none" PROVE table'[to[m]] = m
        BY <3>2
      <4>2. CASE m # n
        <5>1. table[to[m]] = m /\ to[m] \in Executors
          BY <2>2, <3>2, <4>1, <4>2 DEF Reported, Numbered
        <5>2. to[m] # to[n]
          BY <3>1, <5>1 DEF Sends
        <5>3. QED BY <3>2, <5>1, <5>2
      <4>3. QED BY <3>2, <4>2
    <3>4. RunFailed => RunFailed'
      BY <2>1, <3>1, <3>2 DEF RunFailed, TypeOK
    <3>5. QED BY <3>3, <3>4
  <2>3. ASSUME NEW n \in Sends, NEW s \in Statuses, Moving(n, s), Plain
        PROVE  Present' /\ (RunFailed => RunFailed')
    <3>1. Present'
      BY <2>3 DEF Moving, TypeOK, Reported
    <3>2. RunFailed => RunFailed'
      BY <2>1, <2>3 DEF Moving, TypeOK, RunFailed
    <3>3. QED BY <3>1, <3>2
  <2>4. CASE \E e \in Executors : Crash(e)
    <3>1. crashes' # 0
      BY <2>4 DEF Crash, TypeOK
    <3>2. QED BY <2>1, <3>1 DEF Reported, Plain
  <2>5. CASE GetArrives
    <3>1. UNCHANGED <<table, run, to, status, crashes>>
      BY <2>5 DEF GetArrives, execVars, netVars, taskVars, syncVars
    <3>2. seen' = "FAILED" => RunFailed
      BY <2>5 DEF GetArrives, RunFailed
    <3>3. QED BY <2>1, <3>1, <3>2 DEF Reported, RunFailed, Plain
  <2>6. CASE Nothing \/ (\E n \in Sends : Declining(n))
    <3>1. UNCHANGED <<run, table, to, seen, crashes>> /\ status' \in {status, "CANCELLED"}
      BY <2>6 DEF Nothing, Declining
    <3>2. QED BY <2>1, <3>1 DEF Reported, RunFailed, Plain
  <2>7. ASSUME UNCHANGED <<seen, status, crashes>>, Plain => Present' /\ (RunFailed => RunFailed')
        PROVE  Reported'
    BY <2>1, <2>7 DEF Reported, Plain
  <2>8. CASE \E n \in Sends : Accepting(n)
    <3>1. UNCHANGED <<seen, status, crashes>>
      BY <2>8 DEF Accepting
    <3>2. QED BY <2>2, <2>7, <2>8, <3>1
  <2>9. CASE \E n \in Sends, s \in Statuses : Moving(n, s)
    <3>1. UNCHANGED <<seen, status, crashes>>
      BY <2>9 DEF Moving
    <3>2. QED BY <2>3, <2>7, <2>9, <3>1
  <2>10. QED BY <1>2, <2>4, <2>5, <2>6, <2>8, <2>9, OtherSteps
<1>3. QED BY <1>1, <1>2

-----------------------------------------------------------------------------
(***************************************************************************)
(* The theorems.                                                           *)
(***************************************************************************)
LEMMA Starts ==
  ASSUME Init
  PROVE  IInv
<1>1. Retries \in Nat /\ MaxVersion \in Nat /\ MaxCrashes \in Nat
  BY RetriesAssumption, BoundsAssumption
<1>2. TypeOK
  <2>1. CoordinatorTypes
    BY <1>1 DEF Init, CoordinatorTypes, Statuses
  <2>2. NetTypes /\ ExecutorTypes
    BY <1>1 DEF Init, NetTypes, ExecutorTypes, Statuses, Versions
  <2>3. Booleans
    BY DEF Init, Booleans
  <2>4. order \in Seq(Executors) /\ sent \in Sends \union {0}
    BY DEF Init
  <2>5. QED BY <2>1, <2>2, <2>3, <2>4, TypeParts
<1>3. \A n \in Sends : n > 0
  BY Sizes
<1>4. Numbered /\ Tabled
  BY <1>3 DEF Init, Numbered, Tabled
<1>5. \A n \in Sends : ~Live(n)
  BY DEF Init, Live
<1>6. Targeted /\ Exhausted
  BY <1>5 DEF Init, Targeted, Exhausted
<1>7. Counted /\ Recorded /\ Reported
  BY DEF Init, Counted, Recorded, Reported
<1>8. QED BY <1>2, <1>4, <1>6, <1>7 DEF IInv

LEMMA Keeps ==
  ASSUME IInv, Next \/ UNCHANGED vars
  PROVE  IInv'
<1> USE DEF IInv
<1>1. TypeOK' /\ Counted'
  BY TypesKeep, CountedKeeps
<1>2. Numbered' /\ Tabled' /\ Recorded' /\ Reported'
  BY NumberedKeeps, TabledKeeps, RecordedKeeps, ReportedKeeps
<1>3. Targeted' /\ Exhausted'
  BY TargetedKeeps
<1>4. QED BY <1>1, <1>2, <1>3

\* The inductive invariant holds.
THEOREM Inductive == Spec => []IInv
<1>1. Init => IInv
  BY Starts
<1>2. IInv /\ [Next]_vars => IInv'
  BY Keeps
<1>3. QED BY <1>1, <1>2, PTL DEF Spec

\* Every variable keeps its type; the POSTs never outnumber the attempts that the
\* candidates allow (_dispatch_with_failover).
THEOREM Types == Spec => []TypeOK
<1>1. IInv => TypeOK
  BY DEF IInv
<1>2. QED BY <1>1, Inductive, PTL

\* For every number of executors, attempts, bundle versions and crashes, at most one
\* executor ever accepts the task.
THEOREM OneOwnerHolds == Spec => []OneOwner
<1>1. IInv => OneOwner
  <2>1. SUFFICES ASSUME IInv, NEW m \in Accepted, NEW n \in Accepted PROVE to[m] = to[n]
    BY DEF OneOwner
  <2>2. m \in Sends /\ n \in Sends /\ Live(m) /\ Live(n)
    BY <2>1 DEF Accepted, Live
  <2>3. QED BY <2>1, <2>2 DEF IInv, Targeted
<1>2. QED BY <1>1, Inductive, PTL

\* A conflict is that of two versions, answered by an executor that has accepted the task;
\* without file synchronisation every POST carries the same one.
Conflicted ==
  /\ ~SyncOn => active = 0 /\ \A n \in Sends : body[n] = 0
  /\ reply = "conflict" \/ why = "conflict" => SyncOn /\ Accepted # {}

LEMMA AcceptedStays ==
  ASSUME TypeOK, Next \/ UNCHANGED vars
  PROVE  Accepted \subseteq Accepted'
<1>1. CASE Dispatch
  BY <1>1, DispatchSends DEF execVars, Accepted
<1>2. ASSUME NEW n \in Sends, Accepting(n) PROVE Accepted \subseteq Accepted'
  BY <1>2 DEF Accepting, Accepted, TypeOK
<1>3. ASSUME NEW n \in Sends, NEW s \in Statuses, Moving(n, s) PROVE Accepted \subseteq Accepted'
  BY <1>3 DEF Moving, Accepted, TypeOK, Statuses, Terminal
<1>4. ASSUME NEW e \in Executors, Crash(e) PROVE Accepted \subseteq Accepted'
  BY <1>4 DEF Crash, Accepted, TypeOK
<1>5. CASE GetArrives \/ Nothing \/ (\E n \in Sends : Declining(n))
  BY <1>5 DEF GetArrives, Nothing, Declining, execVars, Accepted
<1>6. QED BY <1>1, <1>2, <1>3, <1>4, <1>5, OtherSteps

\* A step of the coordinator only passes on a conflict that an executor has answered.
LEMMA DispatchConflicts ==
  ASSUME Dispatch
  PROVE  why' = "conflict" \/ reply' = "conflict" => why = "conflict" \/ reply = "conflict"
<1> USE DEF Settle, LeaveLoop, taskVars
<1>1. ASSUME NEW d, AttemptFails(d) \/ GiveUpOn(d)
      PROVE  why' = why \/ why' = "unclear" \/ why' = "exhausted"
  BY <1>1, Attempting, GivingUp, Zenon DEF Outcome, Again, Onward
<1>2. CASE Begin \/ Withdraw \/ Post
  BY <1>2 DEF Begin, Withdraw, Post
<1>3. CASE PostUnconnected \/ PostUnanswered
  <2>1. (reply' = reply \/ reply' = "none") /\ \E d : AttemptFails(d) \/ GiveUpOn(d)
    BY <1>3, Zenon DEF PostUnconnected, PostUnanswered
  <2>2. QED BY <1>1, <2>1
<1>4. CASE PostAnswered
  <2>1. reply' = "none"
        /\ \/ why' = why \/ reply = "conflict"
           \/ \E d : AttemptFails(d) \/ GiveUpOn(d)
    BY <1>4, Zenon DEF PostAnswered
  <2>2. QED BY <1>1, <2>1
<1>5. CASE PollNext \/ PollAnswered \/ PollFails \/ Finalize
  BY <1>5 DEF PollNext, PollAnswered, PollFails, Finalize
<1>6. CASE Breaks
  BY <1>6, Breaking
<1>7. QED BY <1>1, <1>2, <1>3, <1>4, <1>5, <1>6 DEF Dispatch

LEMMA ConflictedKeeps ==
  ASSUME IInv, Conflicted, Next \/ UNCHANGED vars
  PROVE  Conflicted'
<1> USE DEF netVars, execVars, syncVars
<1>0. TypeOK /\ Tabled /\ Accepted \subseteq Accepted'
  BY AcceptedStays DEF IInv
<1>1. CASE Dispatch
  <2>1. active' = active /\ (body' = body \/ body' = [body EXCEPT ![sent'] = active])
    BY <1>1, Zenon
    DEF Dispatch, Begin, Withdraw, Post, PostUnconnected, PostAnswered, PostUnanswered,
        PollNext, PollAnswered, PollFails, Breaks, Finalize
  <2>2. ~SyncOn => active' = 0 /\ \A n \in Sends : body'[n] = 0
    BY <1>0, <2>1 DEF Conflicted, TypeOK
  <2>3. QED BY <1>0, <1>1, <2>2, DispatchConflicts DEF Conflicted
<1>2. ASSUME NEW n \in Sends, Request(n) PROVE Conflicted'
  <2>1. UNCHANGED <<body, active, why>>
    BY <1>2, Zenon DEF Request, PostArrives, PostChecked, taskVars
  <2>2. ASSUME reply' = "conflict", reply # "conflict"
        PROVE  table[to[n]] # 0 /\ body[n] # body[table[to[n]]] /\ net[n] = "wire"
    BY <1>2, <2>2
    DEF Request, PostArrives, PostChecked, Accept, Decline, Answer
  <2>3. ASSUME reply' = "conflict", reply # "conflict"
        PROVE  SyncOn /\ Accepted # {}
    <3>1. to[n] \in Executors
      BY <2>2, <2>3 DEF IInv, Numbered
    <3>2. table[to[n]] \in Sends /\ run[table[to[n]]] \in Statuses
      BY <1>0, <2>2, <2>3, <3>1 DEF TypeOK, Tabled
    <3>3. Accepted # {}
      BY <3>2 DEF Accepted, Statuses, Terminal
    <3>4. SyncOn
      BY <2>2, <2>3, <3>2 DEF Conflicted
    <3>5. QED BY <3>3, <3>4
  <2>4. QED BY <1>0, <2>1, <2>3 DEF Conflicted
<1>3. ASSUME ~Dispatch, \A n \in Sends : ~Request(n) PROVE Conflicted'
  <2>1. why' = why
    BY <1>3, OthersFrame
  <2>2. UNCHANGED <<body, reply>> /\ (active' = active \/ SyncOn)
    <3> USE DEF dispVars
    <3>1. CASE CancelJob \/ CancelArrives \/ GetArrives \/ Switch
      BY <3>1, Zenon DEF CancelJob, CancelAsk, CancelFlag, CancelSend, CancelReturns,
                         CancelArrives, GetArrives, Switch
    <3>2. CASE \E n \in Sends : Run(n)
      BY <3>2, Zenon DEF Run, RunStarts, RunLoads, RunFails, RunEnds
    <3>3. CASE \E e \in Executors : Crash(e) \/ OperatorCancels(e) \/ CatchUp(e)
      BY <3>3, Zenon DEF Crash, OperatorCancels, CatchUp
    <3>4. CASE Idle \/ UNCHANGED vars
      BY <3>4, Zenon DEF Idle, vars
    <3>5. QED BY <1>3, <3>1, <3>2, <3>3, <3>4, Zenon DEF Next
  <2>3. QED BY <1>0, <2>1, <2>2 DEF Conflicted
<1>4. QED BY <1>1, <1>2, <1>3

THEOREM ConflictInductive == Spec => [](IInv /\ Conflicted)
<1>1. Init => IInv /\ Conflicted
  <2>1. Init => Conflicted
    BY DEF Init, Conflicted
  <2>2. QED BY <2>1, Starts
<1>2. IInv /\ Conflicted /\ [Next]_vars => IInv' /\ Conflicted'
  BY Keeps, ConflictedKeeps
<1>3. QED BY <1>1, <1>2, PTL DEF Spec

\* A task that failed as declined by every candidate is with none of them, now or later; one
\* that was reported as failed runs nowhere (with no restart and no repeated runs), although
\* its COMMIT may have taken effect; one that failed with a conflict has been accepted.
THEOREM FailureIsHonest == Spec => []HonestFailure
<1>1. IInv /\ Conflicted => HonestFailure
  <2>1. ASSUME IInv, \A n \in Sends : ~Live(n) PROVE Declined
    BY <2>1 DEF Declined, Live, IInv, Recorded, TypeOK
  <2>2. ASSUME IInv, Plain, RunFailed PROVE Ended
    <3>1. table[url] \in Sends /\ run[table[url]] = "FAILED"
      BY <2>2 DEF IInv, TypeOK, RunFailed
    <3>2. \A n \in Sends : run[n] # "none" => n = table[url]
      <4>1. \A n \in Sends : run[n] # "none" => to[n] = url /\ table[to[n]] = n
        BY <2>2 DEF IInv, Targeted, Reported, Live
      <4>2. QED BY <4>1
    <3>3. \A n \in Sends : net[n] \in {"wire", "checking"} => table[to[n]] # 0
      BY <2>2 DEF IInv, Targeted, Live, RunFailed
    <3>4. QED BY <3>1, <3>2, <3>3 DEF Ended
  <2>3. QED BY <2>1, <2>2 DEF HonestFailure, IInv, Exhausted, Reported, Plain, Conflicted
<1>2. QED BY <1>1, ConflictInductive, PTL

-----------------------------------------------------------------------------
(***************************************************************************)
(* The promise, without file synchronisation.                              *)
(***************************************************************************)
LEMMA AcceptedIsFinite ==
  IsFiniteSet(Accepted) /\ Cardinality(Accepted) \in Nat
<1>1. IsFiniteSet(Sends)
  BY FS_Interval, Sizes
<1>2. Accepted \subseteq Sends
  BY DEF Accepted
<1>3. QED BY <1>1, <1>2, FS_Subset, FS_CardinalityType

LEMMA LivesKeeps ==
  ASSUME ~SyncOn, IInv, Lives, Next \/ UNCHANGED vars
  PROVE  Lives'
<1> USE DEF IInv
<1> DEFINE Present == \A n \in Sends : run[n] \in {"QUEUED", "WRITING"} => table[to[n]] = n
           Alive   == IF table[url] # 0 THEN 1 ELSE 0
<1>0. /\ Present /\ Cardinality(Accepted) <= crashes + Alive
      /\ crashes \in Nat /\ url \in Executors
      /\ table \in [Executors -> Sends \union {0}] /\ 0 \notin Sends
  BY Sizes, BoundsAssumption DEF Lives, TypeOK
<1>1. CASE Dispatch
  <2>1. UNCHANGED <<run, table, crashes>>
    BY <1>1, DispatchSends DEF execVars, syncVars
  <2>2. Accepted' = Accepted
    BY <2>1 DEF Accepted
  <2>3. Present'
    BY <1>0, <1>1, <2>1, RunsStay
  <2>4. url' = url \/ (pc = "ready" /\ url' = Head(order))
    BY <1>1, Zenon
    DEF Dispatch, Begin, Withdraw, Post, PostUnconnected, PostAnswered, PostUnanswered,
        PollNext, PollAnswered, PollFails, Breaks, Finalize, taskVars
  <2>5. CASE url' = url
    BY <1>0, <2>1, <2>2, <2>3, <2>5 DEF Lives
  <2>6. CASE url' # url
    <3>1. Accepted = {}
      <4>1. \A n \in Sends : ~Live(n)
        BY <2>4, <2>6, Zenon DEF Targeted
      <4>2. QED BY <4>1 DEF Live, Accepted
    <3>2. Cardinality(Accepted') = 0
      BY <2>2, <3>1, FS_EmptySet
    <3>3. QED BY <1>0, <2>1, <2>3, <3>2 DEF Lives
  <2>7. QED BY <2>5, <2>6
<1>2. CASE ~Dispatch
  <2>1. url' = url
    BY <1>2, OthersFrame
  <2>2. ASSUME NEW n \in Sends, Accepting(n) PROVE Lives'
    <3>1. /\ run[n] = "none" /\ to[n] \in Executors /\ table[to[n]] = 0 /\ to[n] = url
          /\ UNCHANGED <<to, crashes>>
      BY <2>2 DEF Accepting, Numbered, Targeted, Live
    <3>2. Accepted' = Accepted \union {n} /\ n \notin Accepted
      BY <2>2, <3>1 DEF Accepting, Accepted, TypeOK
    <3>3. Cardinality(Accepted') = Cardinality(Accepted) + 1
      BY <3>2, AcceptedIsFinite, FS_AddElement
    <3>4. table'[url] = n /\ \A e \in Executors : e # url => table'[e] = table[e]
      BY <1>0, <2>2, <3>1 DEF Accepting
    <3>5. Present'
      <4>1. SUFFICES ASSUME NEW m \in Sends, run'[m] \in {"QUEUED", "WRITING"}
                     PROVE  table'[to[m]] = m
        BY <3>1
      <4>2. CASE m # n
        <5>1. run'[m] = run[m]
          BY <2>2, <4>2 DEF Accepting, TypeOK
        <5>2. table[to[m]] = m /\ to[m] \in Executors
          BY <1>0, <4>1, <5>1 DEF Numbered
        <5>3. QED BY <1>0, <3>1, <3>4, <5>2
      <4>3. QED BY <3>1, <3>4, <4>2
    <3>6. Cardinality(Accepted') <= crashes' + 1
      BY <1>0, <3>1, <3>3, AcceptedIsFinite
    <3>7. table'[url'] # 0
      BY <1>0, <2>1, <3>4
    <3>8. QED BY <3>5, <3>6, <3>7 DEF Lives
  <2>3. ASSUME NEW n \in Sends, NEW s \in Statuses, Moving(n, s) PROVE Lives'
    <3>1. UNCHANGED <<to, table, crashes>>
      BY <2>3 DEF Moving
    <3>2. Present'
      BY <1>0, <2>3 DEF Moving, TypeOK
    <3>3. Accepted' = Accepted
      BY <2>3 DEF Moving, Accepted, TypeOK
    <3>4. QED BY <1>0, <2>1, <3>1, <3>2, <3>3 DEF Lives
  <2>4. ASSUME NEW e \in Executors, Crash(e) PROVE Lives'
    <3>1. UNCHANGED to /\ table' = [table EXCEPT ![e] = 0] /\ crashes' = crashes + 1
      BY <2>4, Zenon DEF Crash, netVars
    <3>2. \A n \in Sends : run'[n] \in {"QUEUED", "WRITING"} => to[n] # e /\ run'[n] = run[n]
      BY <2>4 DEF Crash
    <3>3. Present'
      <4>1. \A n \in Sends : run'[n] \in {"QUEUED", "WRITING"} =>
                               to[n] \in Executors /\ to[n] # e /\ table[to[n]] = n
        BY <1>0, <3>2 DEF Numbered
      <4>2. QED BY <1>0, <3>1, <4>1
    <3>4. Accepted' = Accepted
      BY <2>4 DEF Crash, Accepted, TypeOK
    <3>5. Cardinality(Accepted') <= crashes' + (IF table'[url'] # 0 THEN 1 ELSE 0)
      BY <1>0, <2>1, <3>1, <3>4, AcceptedIsFinite
    <3>6. QED BY <3>3, <3>5 DEF Lives
  <2>5. CASE GetArrives \/ Nothing \/ (\E n \in Sends : Declining(n))
    <3>1. UNCHANGED <<run, table, to, crashes>>
      BY <2>5 DEF GetArrives, Nothing, Declining, execVars, netVars, syncVars
    <3>2. Accepted' = Accepted
      BY <3>1 DEF Accepted
    <3>3. QED BY <1>0, <2>1, <3>1, <3>2 DEF Lives
  <2>6. QED BY <1>2, <2>2, <2>3, <2>4, <2>5, OtherSteps
<1>3. QED BY <1>1, <1>2

\* The task's owner and outcome, as the promise sees them.
Own  == IF Accepted = {} THEN NoOne ELSE CHOOSE e \in Owners : TRUE
Told == IF pc \in {"over", "final"} THEN status ELSE "open"

LEMMA TheOwner ==
  ASSUME IInv
  PROVE  /\ Accepted = {} => Own = NoOne
         /\ Accepted # {} => Own = url
         /\ url \in Executors /\ url # NoOne
<1>1. url \in Executors /\ url # NoOne
  BY ExecutorsAssumption DEF IInv, TypeOK
<1>2. ASSUME Accepted # {} PROVE Own = url
  <2>1. \A n \in Accepted : to[n] = url
    BY DEF IInv, Targeted, Live, Accepted
  <2>2. Owners = {url}
    BY <1>2, <2>1 DEF Owners
  <2>3. QED BY <1>2, <2>2 DEF Own
<1>3. QED BY <1>1, <1>2 DEF Own

LEMMA OwnersStay ==
  ASSUME IInv, IInv', Accepted' = Accepted, Accepted # {} => url' = url
  PROVE  Own' = Own
<1>1. CASE Accepted = {}
  BY <1>1 DEF Own
<1>2. CASE Accepted # {}
  <2>1. Accepted' # {} => Own' = url'
    <3>1. \A n \in Accepted' : to'[n] = url'
      BY DEF IInv, Targeted, Live, Accepted
    <3>2. Accepted' # {} => Owners' = {url'}
      BY <3>1 DEF Owners
    <3>3. QED BY <3>2 DEF Own
  <2>2. QED BY <1>2, <2>1, TheOwner
<1>3. QED BY <1>1, <1>2

\* A run that has not loaded yet may do so: there are fewer loads than lives.
LEMMA LoadsLeft ==
  ASSUME ~SyncOn, IInv, Lives, NEW n \in Accepted, n \notin loaded
  PROVE  /\ Cardinality(loaded) < 1 + crashes
         /\ Cardinality(loaded \union {n}) = Cardinality(loaded) + 1
<1>1. loaded \subseteq Accepted
  BY DEF IInv, Recorded, TypeOK, Accepted
<1>2. /\ IsFiniteSet(loaded) /\ Cardinality(loaded) <= Cardinality(Accepted)
      /\ Cardinality(loaded) # Cardinality(Accepted)
      /\ Cardinality(loaded) \in Nat
  BY <1>1, AcceptedIsFinite, FS_Subset, FS_CardinalityType
<1>3. Cardinality(Accepted) <= crashes + 1 /\ crashes \in Nat
  BY AcceptedIsFinite, BoundsAssumption DEF IInv, TypeOK, Lives
<1>4. Cardinality(loaded \union {n}) = Cardinality(loaded) + 1
  BY <1>2, FS_AddElement
<1>5. Cardinality(loaded) < 1 + crashes
  BY <1>2, <1>3, AcceptedIsFinite
<1>6. QED BY <1>4, <1>5

\* The coordinator settles the task once, and DONE only when it is loaded.
LEMMA DispatchTells ==
  ASSUME IInv, Dispatch
  PROVE  \/ Told' = Told
         \/ /\ Told = "open"
            /\ Told' \in {"FAILED", "CANCELLED"} \/ (Told' = "DONE" /\ loaded # {})
<1> USE DEF Told, Settle, LeaveLoop, taskVars
<1>1. CASE Begin
  BY <1>1 DEF Begin
<1>2. CASE Withdraw \/ Post \/ PollAnswered
  BY <1>2 DEF Withdraw, Post, PollAnswered
<1>3. CASE PostUnconnected \/ PostAnswered \/ PostUnanswered
  <2>1. pc = "ready" \/ pc = "posting"
    BY <1>3, Zenon DEF PostUnconnected, PostAnswered, PostUnanswered
  <2>2. pc' = "ready" \/ pc' = "poll" \/ (pc' = "over" /\ status' = "FAILED")
    <3>1. ASSUME NEW d, AttemptFails(d) \/ GiveUpOn(d)
          PROVE  pc' = "ready" \/ (pc' = "over" /\ status' = "FAILED")
      BY <3>1, Attempting, GivingUp, Zenon DEF Outcome, Again, Onward
    <3>2. \/ pc' = "poll" \/ (pc' = "over" /\ status' = "FAILED")
          \/ \E d : AttemptFails(d) \/ GiveUpOn(d)
      BY <1>3, Zenon DEF PostUnconnected, PostAnswered, PostUnanswered
    <3>3. QED BY <3>1, <3>2
  <2>3. QED BY <2>1, <2>2
<1>4. CASE PollNext
  BY <1>4 DEF PollNext, IInv, Recorded, Terminal
<1>5. CASE PollFails
  BY <1>5 DEF PollFails
<1>6. CASE Finalize
  BY <1>6 DEF Finalize
<1>7. CASE Breaks
  BY <1>7, Breaking
<1>8. QED BY <1>1, <1>2, <1>3, <1>4, <1>5, <1>6, <1>7 DEF Dispatch

\* The steps of the promise, in those terms.
LEMMA PromisedStep ==
  ASSUME \/ UNCHANGED <<Own, crashes, loaded, Told>>
         \/ Own = NoOne /\ Own' \in Executors /\ UNCHANGED <<crashes, loaded, Told>>
         \/ /\ Own # NoOne /\ Cardinality(loaded) < 1 + crashes
            /\ Cardinality(loaded') = Cardinality(loaded) + 1
            /\ UNCHANGED <<Own, crashes, Told>>
         \/ /\ 1 + crashes' = 1 + crashes + 1
            /\ \/ Cardinality(loaded') = Cardinality(loaded)
               \/ /\ Cardinality(loaded') = Cardinality(loaded) + 1
                  /\ Own # NoOne /\ Cardinality(loaded) < 1 + crashes
            /\ UNCHANGED <<Own, Told>>
         \/ /\ \/ Told = "open" /\ Told' \in {"FAILED", "CANCELLED"}
               \/ Told = "open" /\ Cardinality(loaded) > 0 /\ Told' = "DONE"
               \/ Told # "open" /\ Told' = "CANCELLED"
            /\ UNCHANGED <<Own, crashes, loaded>>
  PROVE  [Promise!PNext]_(Promise!pvars)
BY Zenon
DEF Promise!PNext, Promise!pvars, Promise!Take, Promise!Load, Promise!Die, Promise!Tell, Own, Told

LEMMA StepsArePromised ==
  ASSUME ~SyncOn, IInv, IInv', Lives, Next \/ UNCHANGED vars
  PROVE  [Promise!PNext]_(Promise!pvars)
<1>0. /\ IsFiniteSet(loaded) /\ Cardinality(loaded) \in Nat /\ crashes \in Nat
      /\ loaded # {} => Cardinality(loaded) > 0
  <2>1. IsFiniteSet(loaded)
    <3>1. IsFiniteSet(Sends)
      BY FS_Interval, Sizes
    <3>2. loaded \subseteq Sends
      BY DEF IInv, TypeOK
    <3>3. QED BY <3>1, <3>2, FS_Subset
  <2>2. QED BY <2>1, FS_CardinalityType, FS_EmptySet, BoundsAssumption DEF IInv, TypeOK
<1>1. CASE Dispatch
  <2>1. UNCHANGED <<run, loaded, crashes>>
    BY <1>1, DispatchSends DEF execVars, syncVars
  <2>2. Accepted' = Accepted
    BY <2>1 DEF Accepted
  <2>3. Accepted # {} => url' = url
    <3>1. SUFFICES ASSUME NEW n \in Accepted PROVE url' = url
      OBVIOUS
    <3>2. n \in Sends /\ Live(n) /\ run[n] # "none"
      BY DEF Accepted, Live
    <3>3. Live(n)' /\ to'[n] = to[n]
      BY <1>1, <2>1, <3>2, RunsStay DEF Live, IInv
    <3>4. QED BY <3>2, <3>3 DEF IInv, Targeted
  <2>4. Own' = Own
    BY <2>2, <2>3, OwnersStay
  <2>5. QED BY <1>0, <1>1, <2>1, <2>4, DispatchTells, PromisedStep
<1>2. CASE ~Dispatch
  <2>1. UNCHANGED <<pc, url>>
    BY <1>2, OthersFrame
  <2>2. ASSUME NEW n \in Sends, Accepting(n) PROVE [Promise!PNext]_(Promise!pvars)
    <3>1. UNCHANGED <<loaded, crashes, Told>>
      BY <2>1, <2>2 DEF Accepting, Told
    <3>2. Accepted' # {}
      BY <2>2 DEF Accepting, Accepted, IInv, TypeOK
    <3>3. Own' = url'
      <4>1. \A m \in Accepted' : to'[m] = url'
        BY DEF IInv, Targeted, Live, Accepted
      <4>2. Owners' = {url'}
        BY <3>2, <4>1 DEF Owners
      <4>3. QED BY <3>2, <4>2 DEF Own
    <3>4. Own = NoOne \/ Own' = Own
      BY <2>1, <3>3, TheOwner
    <3>5. Own' \in Executors
      BY <2>1, <3>3, TheOwner
    <3>6. QED BY <3>1, <3>4, <3>5, PromisedStep
  <2>3. ASSUME NEW n \in Sends, NEW s \in Statuses, Moving(n, s)
        PROVE  [Promise!PNext]_(Promise!pvars)
    <3>1. UNCHANGED <<crashes, Told>> /\ n \in Accepted
      BY <2>1, <2>3 DEF Moving, Told, Accepted
    <3>2. Accepted' = Accepted
      BY <2>3 DEF Moving, Accepted, IInv, TypeOK
    <3>3. Own' = Own /\ Own # NoOne
      BY <2>1, <3>1, <3>2, OwnersStay, TheOwner
    <3>4. loaded' = loaded \/ (loaded' = loaded \union {n} /\ n \notin loaded)
      BY <2>3 DEF Moving
    <3>5. loaded' = loaded \/ (/\ Cardinality(loaded) < 1 + crashes
                               /\ Cardinality(loaded') = Cardinality(loaded) + 1)
      BY <3>1, <3>4, LoadsLeft
    <3>6. QED BY <3>1, <3>3, <3>5, PromisedStep
  <2>4. ASSUME NEW e \in Executors, Crash(e) PROVE [Promise!PNext]_(Promise!pvars)
    <3>1. crashes' = crashes + 1 /\ Told' = Told
      BY <2>1, <2>4 DEF Crash, Told, taskVars
    <3>2. Accepted' = Accepted
      BY <2>4 DEF Crash, Accepted, IInv, TypeOK
    <3>3. Own' = Own
      BY <2>1, <3>2, OwnersStay
    <3>4. PICK C \in SUBSET {n \in Sends : to[n] = e /\ run[n] = "WRITING"} :
            loaded' = loaded \union C
      BY <2>4 DEF Crash
    <3>5. \A n \in C : n = table[e]
      BY DEF Lives
    <3>6. \/ loaded' = loaded
          \/ \E n \in Accepted : n \notin loaded /\ loaded' = loaded \union {n}
      BY <3>4, <3>5 DEF Accepted
    <3>7. \/ Cardinality(loaded') = Cardinality(loaded)
          \/ /\ Cardinality(loaded') = Cardinality(loaded) + 1
             /\ Own # NoOne /\ Cardinality(loaded) < 1 + crashes
      BY <3>6, LoadsLeft, TheOwner
    <3>8. QED BY <1>0, <3>1, <3>3, <3>7, PromisedStep
  <2>5. CASE GetArrives \/ Nothing \/ (\E n \in Sends : Declining(n))
    <3>1. UNCHANGED <<run, loaded, crashes>> /\ status' \in {status, "CANCELLED"}
      BY <2>5 DEF GetArrives, Nothing, Declining, execVars, netVars, syncVars, taskVars
    <3>2. Accepted' = Accepted
      BY <3>1 DEF Accepted
    <3>3. Own' = Own
      BY <2>1, <3>2, OwnersStay
    <3>4. Told' = Told \/ (Told # "open" /\ Told' = "CANCELLED")
      BY <2>1, <3>1 DEF Told, IInv, TypeOK, Statuses, Terminal
    <3>5. QED BY <3>1, <3>3, <3>4, PromisedStep
  <2>6. QED BY <1>2, <2>2, <2>3, <2>4, <2>5, OtherSteps DEF IInv
<1>3. QED BY <1>1, <1>2

\* Without file synchronisation, one executor owns the task, it loads the partition at
\* most once in each life of its process, and DONE is only told of a task that was loaded.
THEOREM PromiseIsKept ==
  ASSUME ~SyncOn
  PROVE  Spec => KeepsPromise
<1>1. Init => IInv /\ Lives /\ Promise!PInit
  <2>1. ASSUME Init PROVE IInv /\ Lives /\ Promise!PInit
    <3>1. Accepted = {} /\ loaded = {} /\ crashes = 0 /\ pc = "queued"
      BY <2>1 DEF Init, Accepted
    <3>2. Cardinality(Accepted) = 0 /\ Cardinality(loaded) = 0
      BY <3>1, FS_EmptySet
    <3>3. Lives
      BY <2>1, <3>1, <3>2 DEF Init, Lives
    <3>4. Promise!PInit
      BY <3>1, <3>2 DEF Promise!PInit
    <3>5. QED BY <2>1, <3>3, <3>4, Starts
  <2>2. QED BY <2>1
<1>2. IInv /\ Lives /\ [Next]_vars => IInv' /\ Lives' /\ [Promise!PNext]_(Promise!pvars)
  <2>1. ASSUME IInv, Lives, Next \/ UNCHANGED vars
        PROVE  IInv' /\ Lives' /\ [Promise!PNext]_(Promise!pvars)
    BY <2>1, Keeps, LivesKeeps, StepsArePromised
  <2>2. QED BY <2>1
<1>3. QED BY <1>1, <1>2, PTL DEF Spec, KeepsPromise, Promise!PSpec

-----------------------------------------------------------------------------
(***************************************************************************)
(* One run in each process.                                                *)
(***************************************************************************)

\* Without file synchronisation, and as long as no executor has restarted, a repeated POST
\* starts nothing: an executor's table shows the only run it has accepted.
THEOREM OneRunHolds ==
  ASSUME ~SyncOn
  PROVE  Spec => []OneRunPerProcess
<1>1. IInv => OneRunPerProcess
  <2>1. ASSUME IInv, crashes = 0, NEW m \in Accepted, NEW n \in Accepted, to[m] = to[n]
        PROVE  m = n
    <3>1. table[to[m]] = m /\ table[to[n]] = n
      BY <2>1 DEF IInv, Reported, Plain, Accepted
    <3>2. QED BY <2>1, <3>1
  <2>2. QED BY <2>1 DEF OneRunPerProcess
<1>2. QED BY <1>1, Inductive, PTL

-----------------------------------------------------------------------------
(***************************************************************************)
(* The job's status.                                                       *)
(***************************************************************************)

\* The task has loaded its partition, or an operator has cancelled it.
Excused == loaded # {} \/ (DirectCancel /\ \E n \in asked : run[n] = "CANCELLED")

\* Where a cancel comes from, what is left of it, and what the job's status tells: no request
\* to an executor without the flag, no cancelled run that was not asked for, and a job that
\* is finished before finalize_job runs only by the cancel handler.
CancelInv ==
  /\ xpc \notin {"none", "asked"} \/ xmsg # NoOne => flag
  /\ asked # {} => flag \/ DirectCancel
  /\ \A n \in Sends : run[n] = "CANCELLED" => n \in asked
  /\ status = "CANCELLED" \/ seen = "CANCELLED" => flag \/ Excused
  /\ pc \in {"over", "final"} => status \in Terminal
  /\ job = "DONE" => Excused
  /\ job # "RUNNING" => pc = "final" \/ (flag /\ job = "CANCELLED")

\* What is never taken back: the flag, a load, a request to cancel a run, and its effect.
LEMMA NothingUndone ==
  ASSUME TypeOK, Numbered, Next \/ UNCHANGED vars
  PROVE  /\ flag => flag'
         /\ Excused => Excused'
         /\ \A n \in Sends : run[n] = "CANCELLED" => run'[n] = "CANCELLED"
<1>1. flag => flag'
  <2> USE Zenon DEF jobVars
  <2>1. CASE Dispatch \/ GetArrives
    BY <2>1 DEF Dispatch, Begin, Withdraw, Post, PostUnconnected, PostAnswered, PostUnanswered,
                PollNext, PollAnswered, PollFails, Breaks, Finalize, GetArrives
  <2>2. CASE CancelJob \/ CancelArrives
    BY <2>2 DEF CancelJob, CancelAsk, CancelFlag, CancelSend, CancelReturns, CancelArrives
  <2>3. CASE \E n \in Sends : Request(n) \/ Run(n)
    BY <2>3 DEF Request, PostArrives, PostChecked, Run, RunStarts, RunLoads, RunFails, RunEnds
  <2>4. CASE \E e \in Executors : Crash(e) \/ OperatorCancels(e) \/ CatchUp(e)
    BY <2>4 DEF Crash, OperatorCancels, CatchUp
  <2>5. CASE Switch \/ Idle \/ UNCHANGED vars
    BY <2>5 DEF Switch, Idle, vars
  <2>6. QED BY <2>1, <2>2, <2>3, <2>4, <2>5 DEF Next
<1>2. asked \subseteq asked'
  <2> USE DEF execVars
  <2>1. ASSUME NEW e, CancelAt(e) PROVE asked \subseteq asked'
    BY <2>1 DEF CancelAt
  <2>2. CASE Dispatch
    BY <2>2, DispatchSends
  <2>3. CASE CancelJob \/ GetArrives \/ Switch \/ Idle \/ UNCHANGED vars
    BY <2>3 DEF CancelJob, CancelAsk, CancelFlag, CancelSend, CancelReturns, GetArrives, Switch,
                Idle, vars
  <2>4. CASE \E n \in Sends : Request(n) \/ Run(n)
    BY <2>4, Zenon
    DEF Request, PostArrives, PostChecked, Run, RunStarts, RunLoads, RunFails, RunEnds
  <2>5. CASE CancelArrives \/ (\E e \in Executors : Crash(e) \/ OperatorCancels(e) \/ CatchUp(e))
    BY <2>1, <2>5, Zenon DEF CancelArrives, Crash, OperatorCancels, CatchUp
  <2>6. QED BY <2>2, <2>3, <2>4, <2>5, Zenon DEF Next
<1>3. loaded \subseteq loaded' /\ \A n \in Sends : run[n] = "CANCELLED" => run'[n] = "CANCELLED"
  <2>1. CASE Dispatch
    BY <2>1, DispatchSends DEF execVars
  <2>2. ASSUME NEW n \in Sends, Accepting(n)
        PROVE  loaded \subseteq loaded'
               /\ \A m \in Sends : run[m] = "CANCELLED" => run'[m] = "CANCELLED"
    <3>1. run[n] = "none" /\ loaded' = loaded /\ run' = [run EXCEPT ![n] = "QUEUED"]
      BY <2>2 DEF Accepting, Numbered
    <3>2. QED BY <3>1 DEF TypeOK
  <2>3. ASSUME NEW n \in Sends, NEW s \in Statuses, Moving(n, s)
        PROVE  loaded \subseteq loaded'
               /\ \A m \in Sends : run[m] = "CANCELLED" => run'[m] = "CANCELLED"
    BY <2>3 DEF Moving, TypeOK
  <2>4. ASSUME NEW e \in Executors, Crash(e)
        PROVE  loaded \subseteq loaded'
               /\ \A m \in Sends : run[m] = "CANCELLED" => run'[m] = "CANCELLED"
    BY <2>4 DEF Crash, TypeOK
  <2>5. CASE GetArrives \/ Nothing \/ (\E n \in Sends : Declining(n))
    BY <2>5 DEF GetArrives, Nothing, Declining, execVars
  <2>6. QED BY <2>1, <2>2, <2>3, <2>4, <2>5, OtherSteps
<1>4. Excused => Excused'
  BY <1>2, <1>3 DEF Excused, TypeOK
<1>5. QED BY <1>1, <1>3, <1>4

\* The executors' part.
LEMMA AskedKeeps ==
  ASSUME IInv, CancelInv, Next \/ UNCHANGED vars
  PROVE  /\ asked' # {} => flag' \/ DirectCancel
         /\ \A n \in Sends : run'[n] = "CANCELLED" => n \in asked'
<1> DEFINE Goal == /\ asked' # {} => flag' \/ DirectCancel
                   /\ \A n \in Sends : run'[n] = "CANCELLED" => n \in asked'
<1> USE DEF execVars, jobVars
<1>0. /\ TypeOK /\ Numbered
      /\ flag => flag'
      /\ asked # {} => flag \/ DirectCancel
      /\ \A n \in Sends : run[n] = "CANCELLED" => n \in asked
      /\ xmsg # NoOne => flag
  BY NothingUndone DEF IInv, CancelInv
<1>1. CASE Dispatch
  BY <1>0, <1>1, DispatchSends
<1>2. ASSUME NEW e \in Executors, CancelAt(e), flag \/ DirectCancel
      PROVE  Goal
  <2>1. CASE UNCHANGED <<run, asked>>
    BY <1>0, <2>1
  <2>2. CASE asked' = asked \union {table[e]} /\ run' = [run EXCEPT ![table[e]] = "CANCELLED"]
    BY <1>0, <1>2, <2>2 DEF TypeOK
  <2>3. CASE asked' = asked \union {table[e]} /\ run' = run
    BY <1>0, <1>2, <2>3
  <2>4. QED BY <1>2, <2>1, <2>2, <2>3 DEF CancelAt
<1>3. CASE CancelArrives
  <2>1. CancelAt(xmsg) /\ xmsg \in Executors /\ flag
    BY <1>0, <1>3 DEF CancelArrives, TypeOK
  <2>2. QED BY <1>2, <2>1
<1>4. ASSUME NEW e \in Executors, OperatorCancels(e) PROVE Goal
  BY <1>2, <1>4 DEF OperatorCancels
<1>5. ASSUME NEW e \in Executors, Crash(e) PROVE Goal
  <2>1. asked' = asked /\ \A n \in Sends : run'[n] = "CANCELLED" => run[n] = "CANCELLED"
    BY <1>5 DEF Crash
  <2>2. QED BY <1>0, <2>1
<1>6. CASE CancelJob \/ GetArrives \/ Switch \/ Idle \/ UNCHANGED vars
           \/ (\E e \in Executors : CatchUp(e))
  <2>1. UNCHANGED <<run, asked>>
    BY <1>6, Zenon
    DEF CancelJob, CancelAsk, CancelFlag, CancelSend, CancelReturns, GetArrives, Switch, Idle,
        vars, CatchUp
  <2>2. QED BY <1>0, <2>1
<1>7. ASSUME NEW n \in Sends, Request(n) PROVE Goal
  <2>1. asked' = asked /\ (run' = run \/ run' = [run EXCEPT ![n] = "QUEUED"])
    BY <1>7 DEF Request, PostArrives, PostChecked, Accept, Decline
  <2>2. QED BY <1>0, <2>1 DEF TypeOK
<1>8. ASSUME NEW n \in Sends, Run(n) PROVE Goal
  <2>1. /\ asked' = asked
        /\ \/ run' = run
           \/ \E s : run' = [run EXCEPT ![n] = s] /\ (s = "CANCELLED" => n \in asked)
    BY <1>8 DEF Run, RunStarts, RunLoads, RunFails, RunEnds
  <2>2. QED BY <1>0, <2>1 DEF TypeOK
<1>9. QED BY <1>1, <1>3, <1>4, <1>5, <1>6, <1>7, <1>8, Zenon DEF Next

\* The cancel handler's part.
LEMMA FlagKeeps ==
  ASSUME IInv, CancelInv, Next \/ UNCHANGED vars
  PROVE  xpc' \notin {"none", "asked"} \/ xmsg' # NoOne => flag'
<1> USE DEF jobVars
<1>0. /\ flag => flag'
      /\ xpc \notin {"none", "asked"} \/ xmsg # NoOne => flag
  BY NothingUndone DEF IInv, CancelInv
<1>1. CASE UNCHANGED <<xpc, xmsg>>
  BY <1>0, <1>1
<1>2. CASE CancelJob \/ CancelArrives
  BY <1>0, <1>2
  DEF CancelJob, CancelAsk, CancelFlag, CancelSend, CancelReturns, CancelArrives
<1>3. CASE Dispatch \/ GetArrives
  <2>1. UNCHANGED <<xpc, xmsg>>
    BY <1>3, Zenon
    DEF Dispatch, Begin, Withdraw, Post, PostUnconnected, PostAnswered, PostUnanswered,
        PollNext, PollAnswered, PollFails, Breaks, Finalize, GetArrives
  <2>2. QED BY <1>1, <2>1
<1>4. CASE \E n \in Sends : Request(n) \/ Run(n)
  <2>1. UNCHANGED <<xpc, xmsg>>
    BY <1>4, Zenon
    DEF Request, PostArrives, PostChecked, Run, RunStarts, RunLoads, RunFails, RunEnds
  <2>2. QED BY <1>1, <2>1
<1>5. CASE Switch \/ Idle \/ UNCHANGED vars
           \/ (\E e \in Executors : Crash(e) \/ OperatorCancels(e) \/ CatchUp(e))
  <2>1. UNCHANGED <<xpc, xmsg>>
    BY <1>5, Zenon DEF Switch, Idle, vars, Crash, OperatorCancels, CatchUp
  <2>2. QED BY <1>1, <2>1
<1>6. QED BY <1>2, <1>3, <1>4, <1>5, Zenon DEF Next

\* What only the coordinator's actions and the cancel handler change.
LEMMA OthersTell ==
  ASSUME Next \/ UNCHANGED vars, ~Dispatch, ~CancelJob
  PROVE  UNCHANGED <<pc, status, job>>
<1> USE Zenon DEF dispVars, taskVars, jobVars
<1>1. CASE CancelArrives \/ GetArrives \/ Switch \/ Idle \/ UNCHANGED vars
  BY <1>1 DEF CancelArrives, GetArrives, Switch, Idle, vars
<1>2. CASE \E n \in Sends : Request(n) \/ Run(n)
  BY <1>2 DEF Request, PostArrives, PostChecked, Run, RunStarts, RunLoads, RunFails, RunEnds
<1>3. CASE \E e \in Executors : Crash(e) \/ OperatorCancels(e) \/ CatchUp(e)
  BY <1>3 DEF Crash, OperatorCancels, CatchUp
<1>4. QED BY <1>1, <1>2, <1>3 DEF Next

\* A step of the coordinator up to the end of the task: what it may tell of it.
LEMMA TaskTold ==
  ASSUME Dispatch, ~Finalize
  PROVE  /\ pc \notin {"over", "final"} /\ pc' # "final"
         /\ job' = job
         /\ \/ status' = status /\ pc' # "over"
            \/ status' = "FAILED"
            \/ status' = "CANCELLED" /\ flag
            \/ status' = status /\ status \in Terminal
            \/ status' = seen /\ pc' = "poll"
         /\ seen' = seen \/ seen' = "none"
<1> USE DEF Settle, LeaveLoop, taskVars, jobVars
<1>1. CASE Begin \/ Withdraw \/ Post
  BY <1>1 DEF Begin, Withdraw, Post
<1>2. CASE PostUnconnected \/ PostAnswered \/ PostUnanswered
  <2>1. ASSUME NEW d, AttemptFails(d) \/ GiveUpOn(d)
        PROVE  (pc' = "ready" /\ status' = status) \/ (pc' = "over" /\ status' = "FAILED")
    BY <2>1, Attempting, GivingUp, Zenon DEF Outcome, Again, Onward
  <2>2. /\ pc \in {"ready", "posting"} /\ job' = job /\ seen' = seen
        /\ \/ pc' = "poll" /\ status' = status
           \/ pc' = "over" /\ status' = "FAILED"
           \/ \E d : AttemptFails(d) \/ GiveUpOn(d)
    <3>1. pc = "ready" \/ pc = "posting"
      BY <1>2, Zenon DEF PostUnconnected, PostAnswered, PostUnanswered
    <3>2. QED BY <1>2, <3>1, Zenon DEF PostUnconnected, PostAnswered, PostUnanswered
  <2>3. QED BY <2>1, <2>2
<1>3. CASE PollNext
  BY <1>3 DEF PollNext
<1>4. CASE PollAnswered
  BY <1>4 DEF PollAnswered
<1>5. CASE PollFails
  BY <1>5 DEF PollFails
<1>6. CASE Breaks
  BY <1>6, Breaking
<1>7. QED BY <1>1, <1>2, <1>3, <1>4, <1>5, <1>6 DEF Dispatch

\* What the task and the job tell, and that the job's status is not taken back.
Telling ==
  /\ status = "CANCELLED" \/ seen = "CANCELLED" => flag \/ Excused
  /\ pc \in {"over", "final"} => status \in Terminal
  /\ job = "DONE" => Excused
  /\ job # "RUNNING" => pc = "final" \/ (flag /\ job = "CANCELLED")

LEMMA TellingKeeps ==
  ASSUME IInv, CancelInv, Next \/ UNCHANGED vars
  PROVE  Telling' /\ (job # "RUNNING" => job' = job \/ (flag /\ job' = "CANCELLED"))
<1> DEFINE Kept == job # "RUNNING" => job' = job \/ (flag /\ job' = "CANCELLED")
<1>0. /\ Telling /\ TypeOK /\ Recorded
      /\ flag => flag'
      /\ Excused => Excused'
      /\ xpc \notin {"none", "asked"} => flag
      /\ {"FAILED", "CANCELLED", "DONE"} = Terminal
  BY NothingUndone DEF IInv, CancelInv, Telling, Terminal
<1>1. CASE Finalize
  <2>1. /\ pc = "over" /\ pc' = "final" /\ UNCHANGED <<status, seen, flag>>
        /\ job' \in IF flag THEN {"CANCELLED"}
                    ELSE IF status # "FAILED" THEN {"DONE"} ELSE {"PARTIAL", "FAILED"}
    BY <1>1 DEF Finalize, taskVars
  <2>2. job' = "DONE" => Excused
    <3>1. CASE status = "DONE"
      BY <1>0, <3>1 DEF Recorded, Excused
    <3>2. CASE status = "CANCELLED"
      BY <1>0, <2>1, <3>2 DEF Telling
    <3>3. QED BY <1>0, <2>1, <3>1, <3>2 DEF Telling
  <2>3. Telling'
    BY <1>0, <2>1, <2>2 DEF Telling
  <2>4. Kept
    BY <1>0, <2>1 DEF Telling
  <2>5. QED BY <2>3, <2>4
<1>2. CASE Dispatch /\ ~Finalize
  <2>1. job' = job /\ pc \notin {"over", "final"}
    BY <1>2, TaskTold
  <2>2. status' = "CANCELLED" \/ seen' = "CANCELLED" => flag' \/ Excused'
    BY <1>0, <1>2, TaskTold DEF Telling
  <2>3. pc' \in {"over", "final"} => status' \in Terminal
    BY <1>0, <1>2, TaskTold
  <2>4. Telling'
    BY <1>0, <2>1, <2>2, <2>3 DEF Telling
  <2>5. QED BY <2>1, <2>4
<1>3. CASE CancelJob
  <2>1. /\ pc' = pc /\ seen' = seen
        /\ \/ UNCHANGED <<status, job>>
           \/ flag /\ job' = "CANCELLED" /\ status' \in {status, "CANCELLED"}
    BY <1>0, <1>3
    DEF CancelJob, CancelAsk, CancelFlag, CancelSend, CancelReturns, dispVars, taskVars
  <2>2. QED BY <1>0, <2>1 DEF Telling
<1>4. CASE ~Dispatch /\ ~CancelJob
  <2>1. UNCHANGED <<pc, status, job>>
    BY <1>4, OthersTell
  <2>2. seen' = "CANCELLED" => seen = "CANCELLED" \/ (\E n \in Sends : run[n] = "CANCELLED")
    <3>1. CASE GetArrives
      <4>1. table[url] \in Sends \union {0}
        BY <1>0 DEF TypeOK
      <4>2. QED BY <3>1, <4>1 DEF GetArrives
    <3>2. CASE ~GetArrives
      <4>1. seen' = seen
        <5>1. CASE \E e \in Executors : Crash(e)
          BY <5>1, Zenon DEF Crash, dispVars
        <5>2. QED
          BY <1>0, <1>4, <3>2, <5>1, OtherSteps, Zenon DEF Accepting, Declining, Moving, Nothing
      <4>2. QED BY <4>1
    <3>3. QED BY <3>1, <3>2
  <2>3. (\E n \in Sends : run[n] = "CANCELLED") => flag \/ Excused
    BY DEF CancelInv, Excused
  <2>4. QED BY <1>0, <2>1, <2>2, <2>3 DEF Telling
<1>5. QED BY <1>1, <1>2, <1>3, <1>4

LEMMA CancelInvKeeps ==
  ASSUME IInv, CancelInv, Next \/ UNCHANGED vars
  PROVE  CancelInv'
BY AskedKeeps, FlagKeeps, TellingKeeps, Zenon DEF CancelInv, Telling

THEOREM CancelInductive == Spec => [](IInv /\ CancelInv)
<1>1. Init => IInv /\ CancelInv
  <2>1. Init => CancelInv
    BY DEF Init, CancelInv
  <2>2. QED BY <2>1, Starts
<1>2. IInv /\ CancelInv /\ [Next]_vars => IInv' /\ CancelInv'
  BY Keeps, CancelInvKeeps
<1>3. QED BY <1>1, <1>2, PTL DEF Spec

\* A DONE job has loaded its partition, or an operator has cancelled its task: nothing else
\* lets finalize_job count a task with the successful ones.
THEOREM DoneHolds == Spec => []DoneIsLoaded
<1>1. CancelInv => DoneIsLoaded
  BY DEF CancelInv, DoneIsLoaded, Excused
<1>2. QED BY <1>1, CancelInductive, PTL

\* A finished job changes its status once more at most, to CANCELLED, by an accepted cancel.
THEOREM SettledOnceHolds == Spec => SettledOnce
<1>1. IInv /\ CancelInv /\ [Next]_vars =>
        [job # "RUNNING" => job' = job \/ (flag /\ job' = "CANCELLED")]_vars
  BY TellingKeeps
<1>2. QED BY <1>1, CancelInductive, PTL DEF Spec, SettledOnce

=============================================================================
