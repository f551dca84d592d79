-------------------------- MODULE BundleSyncProofs --------------------------
(***************************************************************************)
(* Theorems about BundleSync, for every set of executors and versions and  *)
(* every number of changes and faults.                                     *)
(***************************************************************************)
EXTENDS BundleSync, TLAPS

-----------------------------------------------------------------------------
(***************************************************************************)
(* The inductive invariant.  First, the calls.                             *)
(***************************************************************************)
Moving   == {"prepare", "abort", "drain", "commit"}
Catching == {"catch", "catchPrepare", "catchCommit"}

\* A call that is waited for is one of the round.
OfRound(c) ==
  /\ c.op = "status"  => step = "refresh" /\ c.version = None
  /\ c.op = "abort"   => step = "abort" /\ c.version = sourceVersion
  /\ c.op = "prepare" => \/ step = "prepare" /\ c.version = sourceVersion
                         \/ step = "catchPrepare" /\ c.version = active
  /\ c.op = "commit"  => \/ step = "commit" /\ c.version = sourceVersion
                         \/ step = "catchCommit" /\ c.version = active

Asked ==
  /\ \A e \in Executors : answer[e] = "wait" => step \in Rounds /\ e \in targets
  /\ \A c \in calls : c.live => OfRound(c)
  /\ \A c \in calls : c.op # "status" => c.version \in Versions

\* What an executor installs.
Installs ==
  \A e \in Executors : installing[e] # None =>
    /\ e \in up
    /\ installing[e].to = e /\ installing[e].op = "prepare"
    /\ installing[e].version \in Versions
    /\ installing[e].live => answer[e] = "wait" /\ Awaited(e) = {} /\ OfRound(installing[e])

\* What is moved to, or caught up with, is a version of the source.
Known ==
  /\ step \in Moving => sourceVersion \in Versions
  /\ step \in Catching => active \in Versions

Base == TypeOK /\ Asked /\ Installs /\ Known

(***************************************************************************)
(* The releases of an executor whose files nobody edits.                   *)
(***************************************************************************)
Intact(e) == edited[e] = {} /\ {link[e]} \union staged[e] \subseteq releases[e]

Untouched == \A e \in Executors \ touched : Intact(e)

(***************************************************************************)
(* Which versions get where.                                               *)
(***************************************************************************)

\* v has passed the import check of e, or was there from the start.
Fit(e, v) == v = First \/ <<e, v>> \notin Unfit

\* Every executor has passed v, except for some that did not answer.
Proven(v) == v \in {None, Other, First} \/ \A f \in Executors : <<f, v>> \in Unfit => f \in skipped

\* Every release on an executor is one that this executor can run.
FitAll ==
  \A e \in Executors : \A v \in ({link[e]} \union releases[e]) \union staged[e] : Fit(e, v)

\* What an executor has, or is believed to have, or is told to switch to.
ProvenAll ==
  /\ \A e \in Executors : Proven(link[e]) /\ Proven(told[e]) /\ Proven(record[e])
  /\ Proven(active)
  /\ \A c \in calls : c.op = "commit" => Proven(c.version)

\* A transition goes on only with the votes of all that have answered.
Voted ==
  /\ step = "prepare" => \A e \in Executors :
       e \in skipped \/ Fit(e, sourceVersion) \/ (e \in targets /\ answer[e] # "ok")
  /\ step \in {"drain", "commit"} => Proven(sourceVersion)

Checked == FitAll /\ ProvenAll /\ Voted

(***************************************************************************)
(* What the coordinator believes of an executor.                           *)
(***************************************************************************)
Plain == (reachable \ astray) \ touched

\* The answer to the status call that is not yet noted.
Reported ==
  \A e \in (Executors \ astray) \ touched :
    step = "refresh" /\ answer[e] = "ok" => told[e] = link[e]

Noted(e) ==
  /\ step = "refresh" /\ answer[e] = "seen" => record[e] = link[e]
  /\ step \in {"decide", "prepare", "abort", "drain"} => record[e] = link[e]
  /\ step = "commit" => IF e \in targets THEN answer[e] = "ok" => link[e] = sourceVersion
                                         ELSE record[e] = link[e]
  /\ step \in {"idle", "refresh", "catch", "catchPrepare", "catchCommit"} =>
       (active # None /\ record[e] = active => link[e] = active)
  /\ step = "catchCommit" /\ e \in targets /\ answer[e] = "ok" => link[e] = active

\* Those that are moved, or caught up with, are not there yet.
Behind ==
  /\ step \in {"prepare", "drain", "commit"} => \A e \in targets : record[e] # sourceVersion
  /\ step \in {"catchPrepare", "catchCommit"} =>
       queue \intersect targets = {} /\ \A e \in targets : record[e] # active
  /\ step \in Catching => \A e \in queue : record[e] # active

Noting == \A e \in Plain : Noted(e)

Believed == Reported /\ Noting /\ Behind

IInv == Base /\ Untouched /\ Checked /\ Believed

-----------------------------------------------------------------------------
(***************************************************************************)
(* Base: the types and the calls.  A step of the coordinator first.        *)
(***************************************************************************)

NoneWaits == \A e \in Executors : answer[e] # "wait"

\* Outside a round, and at the end of one, no call is waited for.
LEMMA RoundOver ==
  ASSUME Base, step \notin Rounds \/ Answered \/ NoneWaits
  PROVE  /\ NoneWaits /\ \A c \in calls : ~c.live
         /\ \A e \in Executors : installing[e] # None => ~installing[e].live
<1>1. NoneWaits
  BY DEF Base, Asked, Answered, NoneWaits
<1>2. \A c \in calls : c.to \in Executors
  BY DEF Base, TypeOK, Calls
<1> QED
  BY <1>1, <1>2 DEF Base, TypeOK, Installs, NoneWaits

\* The rest of Base, when no call is waited for before or after.
LEMMA QuietBase ==
  ASSUME Base, NoneWaits, NoneWaits', UNCHANGED <<calls, installing, up>>
  PROVE  Asked' /\ Installs' /\ \A c \in calls' : c.live => answer'[c.to] = "wait"
<1>1. \A c \in calls : ~c.live
  BY RoundOver
<1>2. \A e \in Executors : installing[e] # None => ~installing[e].live
  BY RoundOver
<1>3. Asked'
  BY <1>1 DEF Base, Asked, NoneWaits
<1>4. Installs'
  BY <1>2 DEF Base, Installs
<1> QED
  BY <1>1, <1>3, <1>4

\* A new round.
LEMMA AskBase ==
  ASSUME Base, NoneWaits, NEW S \in SUBSET Executors,
         NEW op \in {"status", "prepare", "commit", "abort"},
         NEW v \in Versions \union {None}, op # "status" => v \in Versions,
         Ask(S, op, v), UNCHANGED <<up, installing>>, step' \in Rounds,
         \A c \in Calls : c.op = op /\ c.version = v => OfRound(c)'
  PROVE  /\ calls' \subseteq Calls
         /\ answer' \in [Executors -> {"none", "wait", "ok", "fail", "seen"}]
         /\ \A c \in calls' : c.live => answer'[c.to] = "wait"
         /\ Asked' /\ Installs'
<1> DEFINE new == {[to |-> e, op |-> op, version |-> v, live |-> TRUE] : e \in S}
<1>1. new \subseteq Calls
  <2> SUFFICES ASSUME NEW e \in S
               PROVE  [to |-> e, op |-> op, version |-> v, live |-> TRUE] \in Calls
    OBVIOUS
  <2>1. e \in Executors /\ TRUE \in BOOLEAN
    OBVIOUS
  <2> QED
    BY <2>1 DEF Calls
<1>2. \A c \in new : c.to \in S /\ c.op = op /\ c.version = v /\ c.live
  OBVIOUS
<1>3. calls' = calls \union new /\ targets' = S
      /\ answer' = [e \in Executors |-> IF e \in S THEN "wait" ELSE "none"]
  BY DEF Ask
<1>4. \A c \in calls : ~c.live
  BY RoundOver
<1>5. \A e \in Executors : installing[e] # None => ~installing[e].live
  BY RoundOver
<1> HIDE DEF new
<1>6. /\ calls' \subseteq Calls
      /\ answer' \in [Executors -> {"none", "wait", "ok", "fail", "seen"}]
  BY <1>1, <1>3 DEF Base, TypeOK
<1>7. \A c \in calls' : c.live => c \in new
  BY <1>3, <1>4
<1>8. \A c \in calls' : c.live => answer'[c.to] = "wait"
  BY <1>2, <1>3, <1>7
<1>9. Asked'
  <2>1. \A c \in calls' : c.live => OfRound(c)'
    BY <1>1, <1>2, <1>7
  <2>2. \A c \in calls' : c.op # "status" => c.version \in Versions
    BY <1>2, <1>3 DEF Base, Asked
  <2>3. \A e \in Executors : answer'[e] = "wait" => step' \in Rounds /\ e \in targets'
    BY <1>3
  <2> QED
    BY <2>1, <2>2, <2>3 DEF Asked
<1>10. Installs'
  BY <1>5 DEF Base, Installs
<1> QED
  BY <1>6, <1>8, <1>9, <1>10

LEMMA EndCycleQuiet ==
  ASSUME EndCycle
  PROVE  /\ NoneWaits' /\ step' = "idle" /\ targets' = {}
         /\ answer' \in [Executors -> {"none", "wait", "ok", "fail", "seen"}]
BY DEF EndCycle, Fresh, NoneWaits

LEMMA InitBase == ASSUME Init PROVE Base
<1>0. /\ retrying \in BOOLEAN
      /\ changes \in 0..MaxChanges /\ faults \in 0..MaxFaults
  <2>1. retrying \in BOOLEAN
    BY Zenon DEF Init
  <2>2. changes \in 0..MaxChanges /\ faults \in 0..MaxFaults
    BY BoundsAssumption DEF Init
  <2> QED
    BY <2>1, <2>2
<1>1. /\ source \in Versions /\ step \in Steps
      /\ manifest \in Versions \union {None} /\ sourceVersion \in Versions \union {None}
      /\ active \in Seen
      /\ reachable \subseteq Executors /\ waiting \subseteq Executors
      /\ targets \subseteq Executors /\ queue \subseteq Executors
      /\ calls \subseteq Calls /\ up \subseteq Executors
      /\ skipped \subseteq Executors /\ astray \subseteq Executors /\ touched \subseteq Executors
      /\ \A c \in calls : c.live => answer[c.to] = "wait"
  BY VersionsAssumption DEF Init, Steps, Seen
<1>2. /\ record \in [Executors -> Seen] /\ told \in [Executors -> Seen]
      /\ installing \in [Executors -> Calls \union {None}]
  BY DEF Init, Fresh, Seen
<1>3. answer \in [Executors -> {"none", "wait", "ok", "fail", "seen"}]
  BY DEF Init, Fresh
<1>4. link \in [Executors -> Versions]
  BY VersionsAssumption DEF Init, Fresh
<1>5. /\ releases \in [Executors -> SUBSET Versions] /\ edited \in [Executors -> SUBSET Versions]
      /\ staged \in [Executors -> SUBSET Versions]
  <2>1. {First} \in SUBSET Versions /\ {} \in SUBSET Versions
    BY VersionsAssumption
  <2> QED
    BY <2>1 DEF Init, Fresh
<1>6. TypeOK
  BY <1>0, <1>1, <1>2, <1>3, <1>4, <1>5 DEF TypeOK
<1>7. Asked /\ Installs /\ Known
  BY DEF Init, Asked, Installs, Known, Fresh, Moving, Catching
<1> QED
  BY <1>6, <1>7 DEF Base


LEMMA ObserveBase == ASSUME Base, Observe PROVE Base'
<1>1. NoneWaits
  BY RoundOver DEF Observe, Rounds
<1>2. None \in Versions \union {None} /\ ("status" # "status" => None \in Versions)
  BY DEF Base
<1>3. Executors \in SUBSET Executors
  BY DEF Base, TypeOK
<1>4. /\ Ask(Executors, "status", None) /\ UNCHANGED <<up, installing>> /\ step' \in Rounds
      /\ \A c \in Calls : c.op = "status" /\ c.version = None => OfRound(c)'
  BY DEF Observe, OfRound, Rounds, storeVars, cycleVars, viewVars
<1>5. /\ calls' \subseteq Calls
      /\ answer' \in [Executors -> {"none", "wait", "ok", "fail", "seen"}]
      /\ \A c \in calls' : c.live => answer'[c.to] = "wait"
      /\ Asked' /\ Installs'
  BY <1>1, <1>2, <1>3, <1>4, AskBase
<1>6. retrying' \in BOOLEAN
  <2>1. retrying \in BOOLEAN
    BY DEF Base, TypeOK
  <2> QED
    BY <2>1, Zenon DEF Observe
<1>7. sourceVersion' \in Versions \union {None} /\ manifest' \in Versions \union {None}
  BY DEF Observe, Base, TypeOK
<1>8. TypeOK'
  BY <1>3, <1>4, <1>5, <1>6, <1>7 DEF Base, TypeOK, Ask, Observe, Steps, sourceVars, viewVars,
     diskVars, storeVars, pastVars
<1>9. Known'
  BY DEF Observe, Known, Moving, Catching
<1> QED
  BY <1>5, <1>8, <1>9 DEF Base

LEMMA AdoptBase == ASSUME Base, Adopt PROVE Base'
<1>1. NoneWaits
  BY DEF NoneWaits, Adopt, Rounds
<1>2. NoneWaits'
  BY <1>1 DEF Adopt, NoneWaits, roundVars
<1>3. Asked' /\ Installs' /\ \A c \in calls' : c.live => answer'[c.to] = "wait"
  BY <1>1, <1>2, QuietBase DEF Adopt, storeVars
<1>4. TypeOK'
  BY <1>3 DEF Base, TypeOK, Adopt, Steps, sourceVars, cycleVars, viewVars, delayVars, roundVars,
     diskVars, storeVars, pastVars
<1>5. Known'
  BY DEF Adopt, Base, Known, Moving, Catching, cycleVars, viewVars
<1> QED
  BY <1>3, <1>4, <1>5 DEF Base

LEMMA RestBase == ASSUME Base, Rest PROVE Base'
<1>1. NoneWaits
  BY RoundOver DEF Rest, Rounds
<1>2. NoneWaits'
  BY EndCycleQuiet DEF Rest
<1>3. Asked' /\ Installs' /\ \A c \in calls' : c.live => answer'[c.to] = "wait"
  BY <1>1, <1>2, QuietBase DEF Rest, storeVars
<1>4. TypeOK'
  BY <1>3, EndCycleQuiet DEF Base, TypeOK, Rest, Steps, sourceVars, cycleVars, viewVars,
     delayVars, roundVars, diskVars, storeVars, pastVars
<1>5. Known'
  BY EndCycleQuiet DEF Rest, Base, Known, Moving, Catching, cycleVars, viewVars
<1> QED
  BY <1>3, <1>4, <1>5 DEF Base

LEMMA PutOffBase == ASSUME Base, PutOff PROVE Base'
<1>1. NoneWaits
  BY RoundOver DEF PutOff, Rounds
<1>2. NoneWaits'
  BY EndCycleQuiet DEF PutOff
<1>3. Asked' /\ Installs' /\ \A c \in calls' : c.live => answer'[c.to] = "wait"
  BY <1>1, <1>2, QuietBase DEF PutOff, storeVars
<1>4. TypeOK'
  BY <1>3, EndCycleQuiet DEF Base, TypeOK, PutOff, Steps, sourceVars, cycleVars, viewVars,
     delayVars, roundVars, diskVars, storeVars, pastVars
<1>5. Known'
  BY EndCycleQuiet DEF PutOff, Base, Known, Moving, Catching, cycleVars, viewVars
<1> QED
  BY <1>3, <1>4, <1>5 DEF Base

LEMMA AlreadyThereBase == ASSUME Base, AlreadyThere PROVE Base'
<1>1. NoneWaits
  BY RoundOver DEF AlreadyThere, Rounds
<1>2. NoneWaits'
  BY EndCycleQuiet DEF AlreadyThere
<1>3. Asked' /\ Installs' /\ \A c \in calls' : c.live => answer'[c.to] = "wait"
  BY <1>1, <1>2, QuietBase DEF AlreadyThere, storeVars
<1>4. TypeOK'
  BY <1>3, EndCycleQuiet DEF Base, TypeOK, AlreadyThere, Steps, sourceVars, cycleVars, viewVars,
     delayVars, roundVars, diskVars, storeVars, pastVars, Seen
<1>5. Known'
  BY EndCycleQuiet DEF AlreadyThere, Base, Known, Moving, Catching, cycleVars, viewVars
<1> QED
  BY <1>3, <1>4, <1>5 DEF Base

LEMMA BeginPrepareBase == ASSUME Base, BeginPrepare PROVE Base'
<1>1. NoneWaits
  BY RoundOver DEF BeginPrepare, Rounds
<1>2. sourceVersion \in Versions \union {None} /\ ("prepare" # "status" => sourceVersion \in Versions)
  BY DEF Base, TypeOK, BeginPrepare, Due
<1>3. Movable \in SUBSET Executors
  BY DEF Base, TypeOK, Movable
<1>4. /\ Ask(Movable, "prepare", sourceVersion) /\ UNCHANGED <<up, installing>> /\ step' \in Rounds
      /\ \A c \in Calls : c.op = "prepare" /\ c.version = sourceVersion => OfRound(c)'
  BY DEF BeginPrepare, OfRound, Rounds, storeVars, cycleVars, viewVars
<1>5. /\ calls' \subseteq Calls
      /\ answer' \in [Executors -> {"none", "wait", "ok", "fail", "seen"}]
      /\ \A c \in calls' : c.live => answer'[c.to] = "wait"
      /\ Asked' /\ Installs'
  BY <1>1, <1>2, <1>3, <1>4, AskBase
<1>6. TypeOK'
  BY <1>3, <1>4, <1>5 DEF Base, TypeOK, Ask, BeginPrepare, Steps, sourceVars, cycleVars, viewVars,
     delayVars, roundVars, diskVars, storeVars, pastVars
<1>7. Known'
  BY <1>2 DEF BeginPrepare, Base, TypeOK, Known, Moving, Catching, cycleVars
<1> QED
  BY <1>5, <1>6, <1>7 DEF Base

LEMMA BeginAbortBase == ASSUME Base, BeginAbort PROVE Base'
<1>1. NoneWaits
  BY RoundOver DEF BeginAbort, Rounds
<1>2. sourceVersion \in Versions \union {None} /\ ("abort" # "status" => sourceVersion \in Versions)
  BY DEF Base, TypeOK, BeginAbort, Known, Moving
<1>3. Agreeing \in SUBSET Executors
  BY DEF Base, TypeOK, Agreeing
<1>4. /\ Ask(Agreeing, "abort", sourceVersion) /\ UNCHANGED <<up, installing>> /\ step' \in Rounds
      /\ \A c \in Calls : c.op = "abort" /\ c.version = sourceVersion => OfRound(c)'
  BY DEF BeginAbort, OfRound, Rounds, storeVars, cycleVars, viewVars
<1>5. /\ calls' \subseteq Calls
      /\ answer' \in [Executors -> {"none", "wait", "ok", "fail", "seen"}]
      /\ \A c \in calls' : c.live => answer'[c.to] = "wait"
      /\ Asked' /\ Installs'
  BY <1>1, <1>2, <1>3, <1>4, AskBase
<1>6. TypeOK'
  BY <1>3, <1>4, <1>5 DEF Base, TypeOK, Ask, BeginAbort, Steps, sourceVars, cycleVars, viewVars,
     delayVars, roundVars, diskVars, storeVars, pastVars
<1>7. Known'
  BY DEF BeginAbort, Base, Known, Moving, Catching, cycleVars
<1> QED
  BY <1>5, <1>6, <1>7 DEF Base

LEMMA EndAbortBase == ASSUME Base, EndAbort PROVE Base'
<1>1. NoneWaits
  BY RoundOver DEF EndAbort, Rounds
<1>2. NoneWaits'
  BY EndCycleQuiet DEF EndAbort
<1>3. Asked' /\ Installs' /\ \A c \in calls' : c.live => answer'[c.to] = "wait"
  BY <1>1, <1>2, QuietBase DEF EndAbort, storeVars
<1>4. TypeOK'
  BY <1>3, EndCycleQuiet DEF Base, TypeOK, EndAbort, Steps, sourceVars, cycleVars, viewVars,
     delayVars, roundVars, diskVars, storeVars, pastVars
<1>5. Known'
  BY EndCycleQuiet DEF EndAbort, Base, Known, Moving, Catching, cycleVars, viewVars
<1> QED
  BY <1>3, <1>4, <1>5 DEF Base

LEMMA DrainBase == ASSUME Base, Drain PROVE Base'
<1>1. NoneWaits
  BY RoundOver DEF Drain, Rounds
<1>2. NoneWaits'
  BY <1>1 DEF Drain, NoneWaits, roundVars
<1>3. Asked' /\ Installs' /\ \A c \in calls' : c.live => answer'[c.to] = "wait"
  BY <1>1, <1>2, QuietBase DEF Drain, storeVars
<1>4. TypeOK'
  BY <1>3 DEF Base, TypeOK, Drain, Steps, sourceVars, cycleVars, viewVars, delayVars, roundVars,
     diskVars, storeVars, pastVars
<1>5. Known'
  BY DEF Drain, Base, Known, Moving, Catching, cycleVars, viewVars
<1> QED
  BY <1>3, <1>4, <1>5 DEF Base

LEMMA BeginCommitBase == ASSUME Base, BeginCommit PROVE Base'
<1>1. NoneWaits
  BY RoundOver DEF BeginCommit, Rounds
<1>2. sourceVersion \in Versions \union {None} /\ ("commit" # "status" => sourceVersion \in Versions)
  BY DEF Base, TypeOK, BeginCommit, Known, Moving
<1>3. targets \in SUBSET Executors
  BY DEF Base, TypeOK
<1>4. /\ Ask(targets, "commit", sourceVersion) /\ UNCHANGED <<up, installing>> /\ step' \in Rounds
      /\ \A c \in Calls : c.op = "commit" /\ c.version = sourceVersion => OfRound(c)'
  BY DEF BeginCommit, OfRound, Rounds, storeVars, cycleVars, viewVars
<1>5. /\ calls' \subseteq Calls
      /\ answer' \in [Executors -> {"none", "wait", "ok", "fail", "seen"}]
      /\ \A c \in calls' : c.live => answer'[c.to] = "wait"
      /\ Asked' /\ Installs'
  BY <1>1, <1>2, <1>3, <1>4, AskBase
<1>6. TypeOK'
  BY <1>3, <1>4, <1>5 DEF Base, TypeOK, Ask, BeginCommit, Steps, sourceVars, cycleVars, viewVars,
     delayVars, roundVars, diskVars, storeVars, pastVars
<1>7. Known'
  BY DEF BeginCommit, Base, Known, Moving, Catching, cycleVars
<1> QED
  BY <1>5, <1>6, <1>7 DEF Base

LEMMA EndCommitBase == ASSUME Base, EndCommit PROVE Base'
<1>1. NoneWaits
  BY RoundOver DEF EndCommit, Rounds
<1>2. NoneWaits'
  BY EndCycleQuiet DEF EndCommit
<1>3. Asked' /\ Installs' /\ \A c \in calls' : c.live => answer'[c.to] = "wait"
  BY <1>1, <1>2, QuietBase DEF EndCommit, storeVars
<1>4. TypeOK'
  BY <1>3, EndCycleQuiet DEF Base, TypeOK, EndCommit, Steps, sourceVars, cycleVars, viewVars,
     delayVars, roundVars, diskVars, storeVars, pastVars, Moved, Seen
<1>5. Known'
  BY EndCycleQuiet DEF EndCommit, Base, Known, Moving, Catching, cycleVars, viewVars
<1> QED
  BY <1>3, <1>4, <1>5 DEF Base

LEMMA BeginCatchUpBase == ASSUME Base, BeginCatchUp PROVE Base'
<1>1. NoneWaits
  BY RoundOver DEF BeginCatchUp, Rounds
<1>2. PICK S \in SUBSET Lagging :
        \/ queue' = S /\ step' = "catch" /\ UNCHANGED <<waiting, targets, answer>>
        \/ source # manifest /\ waiting' = waiting \union S /\ EndCycle /\ UNCHANGED queue
  BY DEF BeginCatchUp
<1>3. S \subseteq Executors
  BY DEF Base, TypeOK, Lagging
<1>4. NoneWaits'
  BY <1>1, <1>2, EndCycleQuiet DEF NoneWaits
<1>5. Asked' /\ Installs' /\ \A c \in calls' : c.live => answer'[c.to] = "wait"
  BY <1>1, <1>4, QuietBase DEF BeginCatchUp, storeVars
<1>6. TypeOK'
  BY <1>2, <1>3, <1>5, EndCycleQuiet DEF Base, TypeOK, BeginCatchUp, Steps, sourceVars, cycleVars,
     viewVars, delayVars, roundVars, diskVars, storeVars, pastVars
<1>7. Known'
  BY <1>2, EndCycleQuiet DEF BeginCatchUp, Base, TypeOK, Known, Moving, Catching, cycleVars,
     viewVars
<1> QED
  BY <1>5, <1>6, <1>7 DEF Base

LEMMA CatchNextBase == ASSUME Base, NEW e \in Executors, CatchNext(e) PROVE Base'
<1>1. NoneWaits
  BY RoundOver DEF CatchNext, Rounds
<1>2. active \in Versions \union {None} /\ ("prepare" # "status" => active \in Versions)
  BY DEF CatchNext, Base, Known, Catching
<1>3. {e} \in SUBSET Executors
  BY DEF Base, TypeOK
<1>4. /\ Ask({e}, "prepare", active) /\ UNCHANGED <<up, installing>> /\ step' \in Rounds
      /\ \A c \in Calls : c.op = "prepare" /\ c.version = active => OfRound(c)'
  BY DEF CatchNext, OfRound, Rounds, storeVars, cycleVars, viewVars
<1>5. /\ calls' \subseteq Calls
      /\ answer' \in [Executors -> {"none", "wait", "ok", "fail", "seen"}]
      /\ \A c \in calls' : c.live => answer'[c.to] = "wait"
      /\ Asked' /\ Installs'
  BY <1>1, <1>2, <1>3, <1>4, AskBase
<1>6. TypeOK'
  BY <1>3, <1>4, <1>5 DEF Base, TypeOK, Ask, CatchNext, Steps, sourceVars, cycleVars, viewVars,
     delayVars, roundVars, diskVars, storeVars, pastVars
<1>7. Known'
  BY DEF CatchNext, Base, Known, Moving, Catching, viewVars
<1> QED
  BY <1>5, <1>6, <1>7 DEF Base

LEMMA CatchCommitBase == ASSUME Base, CatchCommit PROVE Base'
<1>1. NoneWaits
  BY RoundOver DEF CatchCommit, Rounds
<1>2. active \in Versions \union {None} /\ ("commit" # "status" => active \in Versions)
  BY DEF CatchCommit, Base, Known, Catching
<1>3. targets \in SUBSET Executors
  BY DEF Base, TypeOK
<1>4. /\ Ask(targets, "commit", active) /\ UNCHANGED <<up, installing>> /\ step' \in Rounds
      /\ \A c \in Calls : c.op = "commit" /\ c.version = active => OfRound(c)'
  BY DEF CatchCommit, OfRound, Rounds, storeVars, cycleVars, viewVars
<1>5. /\ calls' \subseteq Calls
      /\ answer' \in [Executors -> {"none", "wait", "ok", "fail", "seen"}]
      /\ \A c \in calls' : c.live => answer'[c.to] = "wait"
      /\ Asked' /\ Installs'
  BY <1>1, <1>2, <1>3, <1>4, AskBase
<1>6. TypeOK'
  BY <1>3, <1>4, <1>5 DEF Base, TypeOK, Ask, CatchCommit, Steps, sourceVars, cycleVars, viewVars,
     delayVars, roundVars, diskVars, storeVars, pastVars
<1>7. Known'
  BY DEF CatchCommit, Base, Known, Moving, Catching, viewVars
<1> QED
  BY <1>5, <1>6, <1>7 DEF Base

LEMMA CaughtBase == ASSUME Base, Caught PROVE Base'
<1>1. NoneWaits
  BY RoundOver DEF Caught, Rounds
<1>2. NoneWaits'
  BY <1>1 DEF Caught, NoneWaits, roundVars
<1>3. Asked' /\ Installs' /\ \A c \in calls' : c.live => answer'[c.to] = "wait"
  BY <1>1, <1>2, QuietBase DEF Caught, storeVars
<1>4. TypeOK'
  BY <1>3 DEF Base, TypeOK, Caught, Steps, sourceVars, cycleVars, viewVars, delayVars, roundVars,
     diskVars, storeVars, pastVars
<1>5. Known'
  BY DEF Caught, Base, Known, Moving, Catching, cycleVars, viewVars
<1> QED
  BY <1>3, <1>4, <1>5 DEF Base

LEMMA EndCatchUpBase == ASSUME Base, EndCatchUp PROVE Base'
<1>1. NoneWaits
  BY RoundOver DEF EndCatchUp, Rounds
<1>2. NoneWaits'
  BY EndCycleQuiet DEF EndCatchUp
<1>3. Asked' /\ Installs' /\ \A c \in calls' : c.live => answer'[c.to] = "wait"
  BY <1>1, <1>2, QuietBase DEF EndCatchUp, storeVars
<1>4. TypeOK'
  BY <1>3, EndCycleQuiet DEF Base, TypeOK, EndCatchUp, Steps, sourceVars, cycleVars, viewVars,
     delayVars, roundVars, diskVars, storeVars, pastVars
<1>5. Known'
  BY EndCycleQuiet DEF EndCatchUp, Base, Known, Moving, Catching, cycleVars, viewVars
<1> QED
  BY <1>3, <1>4, <1>5 DEF Base

LEMMA LearnBase == ASSUME Base, NEW e \in Executors, Learn(e) PROVE Base'
<1>1. /\ answer' \in [Executors -> {"none", "wait", "ok", "fail", "seen"}]
      /\ \A x \in Executors : answer'[x] = "wait" <=> answer[x] = "wait"
  BY DEF Base, TypeOK, Learn
<1>2. TypeOK'
  <2>1. \A c \in calls' : c.live => answer'[c.to] = "wait"
    BY <1>1 DEF Base, TypeOK, Learn, Calls
  <2>2. /\ record' \in [Executors -> Seen] /\ told' \in [Executors -> Seen]
        /\ reachable' \subseteq Executors
    BY DEF Base, TypeOK, Learn, Seen
  <2> QED
    BY <1>1, <2>1, <2>2 DEF Base, TypeOK, Learn, Steps, sourceVars, cycleVars, delayVars,
       diskVars, storeVars, pastVars
<1>3. UNCHANGED <<calls, installing, step, sourceVersion, active, targets, up>>
  BY DEF Learn, storeVars, cycleVars
<1>4. Asked'
  BY <1>1, <1>3 DEF Base, Asked, OfRound
<1>5. Installs'
  BY <1>1, <1>3 DEF Base, Installs, OfRound, Awaited
<1>6. Known'
  BY <1>3 DEF Base, Known
<1> QED
  BY <1>2, <1>4, <1>5, <1>6 DEF Base

(***************************************************************************)
(* A step of an executor.                                                  *)
(***************************************************************************)

\* At most one call to an executor is waited for.
LEMMA OneAwaited ==
  ASSUME Base, NEW c \in calls, NEW d \in calls, c.live, d.live, c.to = d.to
  PROVE  c = d
<1>1. OfRound(c) /\ OfRound(d) /\ c \in Calls /\ d \in Calls
  BY DEF Base, TypeOK, Asked
<1>2. c.op = d.op /\ c.version = d.version /\ c.live = d.live
  BY <1>1 DEF OfRound, Calls
<1>3. /\ c = [to |-> c.to, op |-> c.op, version |-> c.version, live |-> c.live]
      /\ d = [to |-> d.to, op |-> d.op, version |-> d.version, live |-> d.live]
  BY <1>1 DEF Calls
<1> QED
  BY <1>2, <1>3

\* What the answer to c leaves as it was.
LEMMA ReplyKeeps ==
  ASSUME Base, NEW c \in Calls, NEW a \in {"ok", "fail"}, answer' = Reply(c, a)
  PROVE  /\ answer' \in [Executors -> {"none", "wait", "ok", "fail", "seen"}]
         /\ \A x \in Executors : answer'[x] = "wait" => answer[x] = "wait"
         /\ \A x \in Executors : x # c.to \/ ~c.live => answer'[x] = answer[x]
         /\ c.live => answer'[c.to] = a
<1>1. c.to \in Executors
  BY DEF Calls
<1> QED
  BY <1>1 DEF Reply, Base, TypeOK

\* A call is answered at once.
LEMMA AnswerBase ==
  ASSUME Base, NEW c \in calls, NEW a \in {"ok", "fail"}, calls' = calls \ {c},
         answer' = Reply(c, a), UNCHANGED <<step, sourceVersion, active, targets, installing, up>>
  PROVE  /\ calls' \subseteq Calls
         /\ answer' \in [Executors -> {"none", "wait", "ok", "fail", "seen"}]
         /\ \A d \in calls' : d.live => answer'[d.to] = "wait"
         /\ Asked' /\ Installs' /\ Known'
<1>1. calls \subseteq Calls
  BY DEF Base, TypeOK
<1>2. /\ answer' \in [Executors -> {"none", "wait", "ok", "fail", "seen"}]
      /\ \A x \in Executors : answer'[x] = "wait" => answer[x] = "wait"
      /\ \A x \in Executors : x # c.to \/ ~c.live => answer'[x] = answer[x]
  BY <1>1, ReplyKeeps
<1>3. \A d \in calls : d.to \in Executors
  BY <1>1 DEF Calls
<1>4. \A d \in calls' : d.live => answer'[d.to] = "wait"
  BY <1>2, <1>3, OneAwaited DEF Base, TypeOK
<1>5. Asked'
  BY <1>2 DEF Base, Asked, OfRound
<1>6. Installs'
  BY <1>2 DEF Base, Installs, OfRound, Awaited
<1>7. Known'
  BY DEF Base, Known
<1> QED
  BY <1>1, <1>2, <1>4, <1>5, <1>6, <1>7

LEMMA StatusAtBase ==
  ASSUME Base, NEW e \in Executors, NEW c \in calls, StatusAt(e, c) PROVE Base'
<1>1. /\ calls' \subseteq Calls
      /\ answer' \in [Executors -> {"none", "wait", "ok", "fail", "seen"}]
      /\ \A d \in calls' : d.live => answer'[d.to] = "wait"
      /\ Asked' /\ Installs' /\ Known'
  BY AnswerBase DEF StatusAt, cycleVars, viewVars, storeVars
<1>2. told' \in [Executors -> Seen]
  BY DEF Base, TypeOK, StatusAt, Tree, Seen
<1>3. TypeOK'
  BY <1>1, <1>2 DEF Base, TypeOK, StatusAt, sourceVars, cycleVars, viewVars, delayVars, diskVars,
     storeVars, pastVars
<1> QED
  BY <1>1, <1>3 DEF Base

LEMMA PrepareReuseBase ==
  ASSUME Base, NEW e \in Executors, NEW c \in calls, PrepareReuse(e, c) PROVE Base'
<1>1. /\ calls' \subseteq Calls
      /\ answer' \in [Executors -> {"none", "wait", "ok", "fail", "seen"}]
      /\ \A d \in calls' : d.live => answer'[d.to] = "wait"
      /\ Asked' /\ Installs' /\ Known'
  BY AnswerBase DEF PrepareReuse, cycleVars, viewVars
<1>2. staged' \in [Executors -> SUBSET Versions]
  BY DEF Base, TypeOK, PrepareReuse, Reusable
<1>3. TypeOK'
  BY <1>1, <1>2 DEF Base, TypeOK, PrepareReuse, sourceVars, cycleVars, viewVars, delayVars,
     diskVars, pastVars
<1> QED
  BY <1>1, <1>3 DEF Base

LEMMA PrepareBeginBase ==
  ASSUME Base, NEW e \in Executors, NEW c \in calls, PrepareBegin(e, c) PROVE Base'
<1>1. /\ c.to = e /\ c.op = "prepare" /\ e \in up /\ installing[e] = None
      /\ calls' = calls \ {c} /\ installing' = [installing EXCEPT ![e] = c]
      /\ UNCHANGED <<step, sourceVersion, active, targets, answer, up>>
  BY DEF PrepareBegin, Takes, Free, cycleVars, viewVars, roundVars
<1>2. c \in Calls /\ c.version \in Versions /\ (c.live => answer[e] = "wait" /\ OfRound(c))
  BY <1>1 DEF Base, TypeOK, Asked
<1>3. c.live => (Awaited(e))' = {}
  BY <1>1, OneAwaited DEF Awaited
<1>4. Installs'
  <2> SUFFICES ASSUME NEW x \in Executors, installing'[x] # None
               PROVE  /\ x \in up'
                      /\ installing'[x].to = x /\ installing'[x].op = "prepare"
                      /\ installing'[x].version \in Versions
                      /\ installing'[x].live =>
                           answer'[x] = "wait" /\ (Awaited(x))' = {} /\ OfRound(installing[x])'
    BY DEF Installs
  <2>1. CASE x = e
    <3>1. installing'[x] = c
      BY <1>1, <2>1 DEF Base, TypeOK
    <3> QED
      BY <1>1, <1>2, <1>3, <2>1, <3>1 DEF OfRound
  <2>2. CASE x # e
    <3>1. installing'[x] = installing[x]
      BY <1>1, <2>2 DEF Base, TypeOK
    <3> QED
      BY <1>1, <2>2, <3>1 DEF Base, Installs, OfRound, Awaited
  <2> QED
    BY <2>1, <2>2
<1>5. Asked'
  BY <1>1 DEF Base, Asked, OfRound
<1>6. Known'
  BY <1>1 DEF Base, Known
<1>7. TypeOK'
  <2>1. /\ releases' \in [Executors -> SUBSET Versions] /\ edited' \in [Executors -> SUBSET Versions]
        /\ installing' \in [Executors -> Calls \union {None}]
    BY <1>2 DEF Base, TypeOK, PrepareBegin
  <2> QED
    BY <1>1, <2>1 DEF Base, TypeOK, PrepareBegin, sourceVars, cycleVars, viewVars, delayVars,
       roundVars, pastVars
<1> QED
  BY <1>4, <1>5, <1>6, <1>7 DEF Base

\* The end of an installation.
LEMMA EndingBase ==
  ASSUME Base, NEW e \in Executors, installing[e] # None,
         installing' = [installing EXCEPT ![e] = None], NEW a \in {"ok", "fail"},
         answer' = Reply(installing[e], a), UNCHANGED <<step, sourceVersion, active, targets, calls, up>>
  PROVE  /\ installing' \in [Executors -> Calls \union {None}]
         /\ answer' \in [Executors -> {"none", "wait", "ok", "fail", "seen"}]
         /\ \A d \in calls' : d.live => answer'[d.to] = "wait"
         /\ Asked' /\ Installs' /\ Known'
<1> DEFINE c == installing[e]
<1>1. c \in Calls /\ c.to = e /\ (c.live => Awaited(e) = {})
  BY DEF Base, TypeOK, Installs
<1>2. /\ answer' \in [Executors -> {"none", "wait", "ok", "fail", "seen"}]
      /\ \A x \in Executors : answer'[x] = "wait" => answer[x] = "wait"
      /\ \A x \in Executors : x # c.to \/ ~c.live => answer'[x] = answer[x]
  BY <1>1, ReplyKeeps
<1>3. \A d \in calls : d.to \in Executors
  BY DEF Base, TypeOK, Calls
<1>4. \A d \in calls' : d.live => answer'[d.to] = "wait"
  BY <1>1, <1>2, <1>3 DEF Base, TypeOK, Awaited
<1>5. Asked'
  BY <1>2 DEF Base, Asked, OfRound
<1>6. installing' \in [Executors -> Calls \union {None}]
  BY DEF Base, TypeOK
<1>7. Installs'
  <2>1. \A x \in Executors : installing'[x] # None => x # e /\ installing'[x] = installing[x]
    BY DEF Base, TypeOK
  <2> QED
    BY <1>1, <1>2, <2>1 DEF Base, Installs, OfRound, Awaited
<1>8. Known'
  BY DEF Base, Known
<1> QED
  BY <1>2, <1>4, <1>5, <1>6, <1>7, <1>8

LEMMA PrepareEndBase ==
  ASSUME Base, NEW e \in Executors, PrepareEnd(e) PROVE Base'
<1>1. /\ installing' \in [Executors -> Calls \union {None}]
      /\ answer' \in [Executors -> {"none", "wait", "ok", "fail", "seen"}]
      /\ \A d \in calls' : d.live => answer'[d.to] = "wait"
      /\ Asked' /\ Installs' /\ Known'
  BY EndingBase DEF PrepareEnd, cycleVars, viewVars
<1>2. installing[e].version \in Versions
  BY DEF PrepareEnd, Base, Installs
<1>3. /\ releases' \in [Executors -> SUBSET Versions] /\ staged' \in [Executors -> SUBSET Versions]
  BY <1>2 DEF Base, TypeOK, PrepareEnd
<1>4. TypeOK'
  BY <1>1, <1>3 DEF Base, TypeOK, PrepareEnd, sourceVars, cycleVars, viewVars, delayVars, pastVars
<1> QED
  BY <1>1, <1>4 DEF Base

LEMMA PrepareFailsBase ==
  ASSUME Base, NEW e \in Executors, PrepareFails(e) PROVE Base'
<1>1. /\ installing' \in [Executors -> Calls \union {None}]
      /\ answer' \in [Executors -> {"none", "wait", "ok", "fail", "seen"}]
      /\ \A d \in calls' : d.live => answer'[d.to] = "wait"
      /\ Asked' /\ Installs' /\ Known'
  BY EndingBase DEF PrepareFails, cycleVars, viewVars
<1>2. faults' \in 0..MaxFaults
  BY BoundsAssumption DEF PrepareFails, Base, TypeOK
<1>3. TypeOK'
  BY <1>1, <1>2 DEF Base, TypeOK, PrepareFails, sourceVars, cycleVars, viewVars, delayVars,
     diskVars,
     pastVars
<1> QED
  BY <1>1, <1>3 DEF Base

LEMMA CommitAtBase ==
  ASSUME Base, NEW e \in Executors, NEW c \in calls, CommitAt(e, c) PROVE Base'
<1>1. /\ calls' \subseteq Calls
      /\ answer' \in [Executors -> {"none", "wait", "ok", "fail", "seen"}]
      /\ \A d \in calls' : d.live => answer'[d.to] = "wait"
      /\ Asked' /\ Installs' /\ Known'
  BY AnswerBase DEF CommitAt, cycleVars, viewVars
<1>2. c.version \in Versions
  BY DEF CommitAt, Base, TypeOK
<1>3. /\ staged' \in [Executors -> SUBSET Versions] /\ link' \in [Executors -> Versions]
  BY <1>2 DEF CommitAt, Base, TypeOK
<1>4. PICK gone \in SUBSET Spare(e, c.version) :
        /\ releases' = [releases EXCEPT ![e] = @ \ gone]
        /\ edited' = [edited EXCEPT ![e] = @ \ gone]
  BY DEF CommitAt
<1>5. /\ releases' \in [Executors -> SUBSET Versions] /\ edited' \in [Executors -> SUBSET Versions]
  BY <1>4 DEF Base, TypeOK
<1>6. astray' \subseteq Executors
  BY DEF CommitAt, Strayed, Takes, Base, TypeOK
<1>7. TypeOK'
  BY <1>1, <1>3, <1>5, <1>6 DEF Base, TypeOK, CommitAt, sourceVars, cycleVars, viewVars, delayVars
<1> QED
  BY <1>1, <1>7 DEF Base

LEMMA CommitBreaksBase ==
  ASSUME Base, NEW e \in Executors, NEW c \in calls, CommitBreaks(e, c) PROVE Base'
<1>1. /\ calls' \subseteq Calls
      /\ answer' \in [Executors -> {"none", "wait", "ok", "fail", "seen"}]
      /\ \A d \in calls' : d.live => answer'[d.to] = "wait"
      /\ Asked' /\ Installs' /\ Known'
  BY AnswerBase DEF CommitBreaks, cycleVars, viewVars
<1>2. c.version \in Versions
  BY DEF CommitBreaks, Base, TypeOK
<1>3. /\ staged' \in [Executors -> SUBSET Versions] /\ link' \in [Executors -> Versions]
  BY <1>2 DEF CommitBreaks, Base, TypeOK
<1>4. astray' \subseteq Executors
  BY DEF CommitBreaks, Strayed, Takes, Base, TypeOK
<1>5. faults' \in 0..MaxFaults
  BY BoundsAssumption DEF CommitBreaks, Base, TypeOK
<1>6. TypeOK'
  BY <1>1, <1>3, <1>4, <1>5 DEF Base, TypeOK, CommitBreaks, sourceVars, cycleVars, viewVars,
     delayVars
<1> QED
  BY <1>1, <1>6 DEF Base

LEMMA CommitRefusedBase ==
  ASSUME Base, NEW e \in Executors, NEW c \in calls, CommitRefused(e, c) PROVE Base'
<1>1. /\ calls' \subseteq Calls
      /\ answer' \in [Executors -> {"none", "wait", "ok", "fail", "seen"}]
      /\ \A d \in calls' : d.live => answer'[d.to] = "wait"
      /\ Asked' /\ Installs' /\ Known'
  BY AnswerBase DEF CommitRefused, cycleVars, viewVars, storeVars
<1>2. TypeOK'
  BY <1>1 DEF Base, TypeOK, CommitRefused, sourceVars, cycleVars, viewVars, delayVars, diskVars,
     storeVars, pastVars
<1> QED
  BY <1>1, <1>2 DEF Base

LEMMA AbortAtBase ==
  ASSUME Base, NEW e \in Executors, NEW c \in calls, AbortAt(e, c) PROVE Base'
<1>1. /\ calls' \subseteq Calls
      /\ answer' \in [Executors -> {"none", "wait", "ok", "fail", "seen"}]
      /\ \A d \in calls' : d.live => answer'[d.to] = "wait"
      /\ Asked' /\ Installs' /\ Known'
  BY AnswerBase DEF AbortAt, cycleVars, viewVars
<1>2. /\ releases' \in [Executors -> SUBSET Versions] /\ edited' \in [Executors -> SUBSET Versions]
      /\ staged' \in [Executors -> SUBSET Versions]
  BY DEF AbortAt, Base, TypeOK
<1>3. TypeOK'
  BY <1>1, <1>2 DEF Base, TypeOK, AbortAt, sourceVars, cycleVars, viewVars, delayVars, pastVars
<1> QED
  BY <1>1, <1>3 DEF Base

\* Calls to e are taken away, and the coordinator stops waiting for it.
LEMMA LetGoBase ==
  ASSUME Base, NEW e \in Executors, answer' = [answer EXCEPT ![e] = "fail"],
         calls' \subseteq Calls, \A d \in calls' : d.live => d \in calls \ Awaited(e),
         \A d \in calls' : \E c \in calls : c.op = d.op /\ c.version = d.version,
         UNCHANGED <<step, sourceVersion, active, targets>>
  PROVE  /\ answer' \in [Executors -> {"none", "wait", "ok", "fail", "seen"}]
         /\ \A d \in calls' : d.live => answer'[d.to] = "wait"
         /\ Asked' /\ Known'
<1>1. /\ answer' \in [Executors -> {"none", "wait", "ok", "fail", "seen"}]
      /\ \A x \in Executors : answer'[x] = "wait" => answer[x] = "wait"
      /\ \A x \in Executors : x # e => answer'[x] = answer[x]
  BY DEF Base, TypeOK
<1>2. \A d \in calls' : d.live => d.to \in Executors /\ d.to # e /\ d \in calls
  BY DEF Awaited, Calls
<1>3. \A d \in calls' : d.live => answer'[d.to] = "wait"
  BY <1>1, <1>2 DEF Base, TypeOK
<1>4. Asked'
  BY <1>1, <1>2 DEF Base, Asked, OfRound
<1>5. Known'
  BY DEF Base, Known
<1> QED
  BY <1>1, <1>3, <1>4, <1>5

LEMMA RefusedBase ==
  ASSUME Base, NEW e \in Executors, Refused(e) PROVE Base'
<1>1. /\ answer' = [answer EXCEPT ![e] = "fail"] /\ calls' = calls \ Awaited(e) /\ e \notin up
      /\ UNCHANGED <<step, sourceVersion, active, targets, installing, up>>
  BY DEF Refused, cycleVars, viewVars, storeVars
<1>2. calls' \subseteq Calls
  BY <1>1 DEF Base, TypeOK
<1>3. /\ answer' \in [Executors -> {"none", "wait", "ok", "fail", "seen"}]
      /\ \A d \in calls' : d.live => answer'[d.to] = "wait"
      /\ Asked' /\ Known'
  BY <1>1, <1>2, LetGoBase
<1>4. Installs'
  BY <1>1 DEF Base, TypeOK, Installs, OfRound, Awaited
<1>5. TypeOK'
  BY <1>2, <1>3 DEF Base, TypeOK, Refused, sourceVars, cycleVars, viewVars, delayVars, diskVars,
     storeVars, pastVars
<1> QED
  BY <1>3, <1>4, <1>5 DEF Base

LEMMA ResetBase ==
  ASSUME Base, NEW e \in Executors, Reset(e) PROVE Base'
<1>1. /\ answer' = [answer EXCEPT ![e] = "fail"] /\ calls' = calls /\ Awaited(e) = {} /\ ~Serving(e)
      /\ UNCHANGED <<step, sourceVersion, active, targets, installing, up>>
  BY DEF Reset, cycleVars, viewVars, storeVars
<1>2. calls' \subseteq Calls
  BY <1>1 DEF Base, TypeOK
<1>3. /\ answer' \in [Executors -> {"none", "wait", "ok", "fail", "seen"}]
      /\ \A d \in calls' : d.live => answer'[d.to] = "wait"
      /\ Asked' /\ Known'
  BY <1>1, <1>2, LetGoBase
<1>4. Installs'
  BY <1>1 DEF Base, TypeOK, Installs, OfRound, Awaited, Serving
<1>5. TypeOK'
  BY <1>2, <1>3 DEF Base, TypeOK, Reset, sourceVars, cycleVars, viewVars, delayVars, diskVars,
     storeVars, pastVars
<1> QED
  BY <1>3, <1>4, <1>5 DEF Base

(***************************************************************************)
(* A step of the surroundings.                                             *)
(***************************************************************************)

\* No call changes, nor what they depend on.
LEMMA StillBase ==
  ASSUME Base, UNCHANGED <<step, sourceVersion, active, targets, answer, calls, installing>>,
         up \subseteq up'
  PROVE  Asked' /\ Installs' /\ Known'
<1>1. Asked'
  BY DEF Base, Asked, OfRound
<1>2. Installs'
  BY DEF Base, Installs, OfRound, Awaited
<1> QED
  BY <1>1, <1>2 DEF Base, Known

LEMMA ChangeBase == ASSUME Base, Change PROVE Base'
<1>1. Asked' /\ Installs' /\ Known'
  BY StillBase DEF Change, cycleVars, viewVars, roundVars, storeVars
<1>2. source' \in Versions /\ changes' \in 0..MaxChanges
  BY BoundsAssumption DEF Change, Base, TypeOK
<1>3. TypeOK'
  BY <1>2 DEF Base, TypeOK, Change, cycleVars, viewVars, delayVars, roundVars, diskVars, storeVars,
     pastVars
<1> QED
  BY <1>1, <1>3 DEF Base

LEMMA EditBase == ASSUME Base, NEW e \in Executors, Edit(e) PROVE Base'
<1>1. Asked' /\ Installs' /\ Known'
  BY StillBase DEF Edit, cycleVars, viewVars, roundVars, storeVars
<1>2. faults' \in 0..MaxFaults
  BY BoundsAssumption DEF Edit, Base, TypeOK
<1>3. edited' \in [Executors -> SUBSET Versions] /\ touched' \subseteq Executors
  BY DEF Edit, Base, TypeOK
<1>4. TypeOK'
  BY <1>2, <1>3 DEF Base, TypeOK, Edit, sourceVars, cycleVars, viewVars, delayVars, roundVars,
     storeVars
<1> QED
  BY <1>1, <1>4 DEF Base

LEMMA RestartBase == ASSUME Base, NEW e \in Executors, Restart(e) PROVE Base'
<1>1. Asked' /\ Installs' /\ Known'
  BY StillBase DEF Restart, cycleVars, viewVars, roundVars, storeVars
<1>2. TypeOK'
  BY DEF Base, TypeOK, Restart, sourceVars, cycleVars, viewVars, delayVars, roundVars, diskVars,
     pastVars
<1> QED
  BY <1>1, <1>2 DEF Base

LEMMA CrashBase == ASSUME Base, NEW e \in Executors, Crash(e) PROVE Base'
<1>1. /\ UNCHANGED <<step, sourceVersion, active, targets, answer, calls>>
      /\ installing' = [installing EXCEPT ![e] = None] /\ up' = up \ {e}
  BY DEF Crash, cycleVars, viewVars, roundVars
<1>2. Asked' /\ Known'
  BY <1>1 DEF Base, Asked, Known, OfRound
<1>3. Installs'
  <2>1. \A x \in Executors : installing'[x] # None => x # e /\ installing'[x] = installing[x]
    BY <1>1 DEF Base, TypeOK
  <2> QED
    BY <1>1, <2>1 DEF Base, Installs, OfRound, Awaited
<1>4. faults' \in 0..MaxFaults
  BY BoundsAssumption DEF Crash, Base, TypeOK
<1>5. /\ staged' \in [Executors -> SUBSET Versions] /\ up' \subseteq Executors
      /\ installing' \in [Executors -> Calls \union {None}]
  BY DEF Crash, Base, TypeOK
<1>6. TypeOK'
  BY <1>4, <1>5 DEF Base, TypeOK, Crash, sourceVars, cycleVars, viewVars, delayVars, roundVars,
     diskVars, pastVars
<1> QED
  BY <1>2, <1>3, <1>6 DEF Base

\* A call that is given up stays a call, and nobody waits for it.
LEMMA AbandonedCalls ==
  ASSUME NEW C \in SUBSET Calls
  PROVE  \A d \in Abandoned(C) :
           /\ d \in Calls /\ ~d.live
           /\ \E c \in C : c.to = d.to /\ c.op = d.op /\ c.version = d.version
<1> SUFFICES ASSUME NEW c \in C
             PROVE  LET d == [c EXCEPT !.live = FALSE]
                    IN  /\ d \in Calls /\ ~d.live
                        /\ c.to = d.to /\ c.op = d.op /\ c.version = d.version
  BY DEF Abandoned
<1> QED
  BY DEF Calls

LEMMA UnattendedCall ==
  ASSUME Base, NEW e \in Executors
  PROVE  /\ Unattended(e) \in Calls \union {None}
         /\ Unattended(e) # None =>
              /\ installing[e] # None /\ ~Unattended(e).live
              /\ Unattended(e).to = installing[e].to /\ Unattended(e).op = installing[e].op
              /\ Unattended(e).version = installing[e].version
<1>1. CASE installing[e] = None
  BY <1>1 DEF Unattended
<1>2. CASE installing[e] # None
  <2>1. installing[e] \in Calls
    BY <1>2 DEF Base, TypeOK
  <2> QED
    BY <1>2, <2>1 DEF Unattended, Calls
<1> QED
  BY <1>1, <1>2

LEMMA GiveUpBase == ASSUME Base, NEW e \in Executors, GiveUp(e) PROVE Base'
<1>1. PICK lost \in BOOLEAN :
        calls' = (calls \ Awaited(e)) \union (IF lost THEN {} ELSE Abandoned(Awaited(e)))
  BY DEF GiveUp
<1>2. /\ answer' = [answer EXCEPT ![e] = "fail"]
      /\ installing' = [installing EXCEPT ![e] = Unattended(e)]
      /\ UNCHANGED <<step, sourceVersion, active, targets, up>>
  BY DEF GiveUp, cycleVars, viewVars
<1>3. Awaited(e) \in SUBSET Calls
  BY DEF Base, TypeOK, Awaited
<1>4. \A d \in Abandoned(Awaited(e)) :
        /\ d \in Calls /\ ~d.live
        /\ \E c \in Awaited(e) : c.to = d.to /\ c.op = d.op /\ c.version = d.version
  BY <1>3, AbandonedCalls
<1>5. /\ calls' \subseteq Calls /\ \A d \in calls' : d.live => d \in calls \ Awaited(e)
      /\ \A d \in calls' : \E c \in calls : c.op = d.op /\ c.version = d.version
  BY <1>1, <1>4 DEF Base, TypeOK, Awaited
<1>6. /\ answer' \in [Executors -> {"none", "wait", "ok", "fail", "seen"}]
      /\ \A d \in calls' : d.live => answer'[d.to] = "wait"
      /\ Asked' /\ Known'
  BY <1>2, <1>5, LetGoBase
<1>7. Installs'
  <2> SUFFICES ASSUME NEW x \in Executors, installing'[x] # None
               PROVE  /\ x \in up'
                      /\ installing'[x].to = x /\ installing'[x].op = "prepare"
                      /\ installing'[x].version \in Versions
                      /\ installing'[x].live =>
                           answer'[x] = "wait" /\ (Awaited(x))' = {} /\ OfRound(installing[x])'
    BY DEF Installs
  <2>1. CASE x = e
    <3>1. installing'[x] = Unattended(e)
      BY <1>2, <2>1 DEF Base, TypeOK
    <3> QED
      BY <1>2, <2>1, <3>1, UnattendedCall DEF Base, Installs
  <2>2. CASE x # e
    <3>1. installing'[x] = installing[x] /\ answer'[x] = answer[x]
      BY <1>2, <2>2 DEF Base, TypeOK
    <3>2. (Awaited(x))' \subseteq Awaited(x)
      BY <1>5 DEF Awaited
    <3> QED
      BY <1>2, <3>1, <3>2 DEF Base, Installs, OfRound
  <2> QED
    BY <2>1, <2>2
<1>8. installing' \in [Executors -> Calls \union {None}]
  BY <1>2, UnattendedCall DEF Base, TypeOK
<1>9. faults' \in 0..MaxFaults
  BY BoundsAssumption DEF GiveUp, Base, TypeOK
<1>10. TypeOK'
  BY <1>5, <1>6, <1>8, <1>9 DEF Base, TypeOK, GiveUp, sourceVars, cycleVars, viewVars, delayVars,
     diskVars, pastVars
<1> QED
  BY <1>6, <1>7, <1>10 DEF Base

LEMMA CoordinatorRestartBase == ASSUME Base, CoordinatorRestart PROVE Base'
<1>1. /\ step' = "idle" /\ calls' = Abandoned(calls) /\ up' = up
      /\ installing' = [e \in Executors |-> Unattended(e)]
      /\ answer' = Fresh("none")
  BY DEF CoordinatorRestart
<1>2. \A d \in calls' :
        /\ d \in Calls /\ ~d.live
        /\ \E c \in calls : c.to = d.to /\ c.op = d.op /\ c.version = d.version
  BY <1>1, AbandonedCalls DEF Base, TypeOK
<1>3. \A e \in Executors : answer'[e] = "none"
  BY <1>1 DEF Fresh
<1>4. Asked'
  BY <1>2, <1>3 DEF Base, Asked
<1>5. Installs'
  BY <1>1, UnattendedCall DEF Base, Installs
<1>6. Known'
  BY <1>1 DEF Known, Moving, Catching
<1>7. /\ record' \in [Executors -> Seen] /\ told' \in [Executors -> Seen]
      /\ answer' \in [Executors -> {"none", "wait", "ok", "fail", "seen"}]
      /\ installing' \in [Executors -> Calls \union {None}]
  BY <1>1, UnattendedCall DEF CoordinatorRestart, Fresh, Seen
<1>8. retrying' \in BOOLEAN
  BY Zenon DEF CoordinatorRestart
<1>9. faults' \in 0..MaxFaults
  BY BoundsAssumption DEF CoordinatorRestart, Base, TypeOK
<1>10. /\ reachable' \subseteq Executors /\ waiting' \subseteq Executors
       /\ targets' \subseteq Executors /\ queue' \subseteq Executors
       /\ manifest' = None /\ sourceVersion' = None /\ active' = None
  BY DEF CoordinatorRestart
<1>11. TypeOK'
  BY <1>1, <1>2, <1>7, <1>8, <1>9, <1>10
     DEF Base, TypeOK, CoordinatorRestart, Steps, Seen, sourceVars, diskVars, pastVars
<1> QED
  BY <1>4, <1>5, <1>6, <1>11 DEF Base

-----------------------------------------------------------------------------
(***************************************************************************)
(* Untouched: only an executor changes its releases.                       *)
(***************************************************************************)

LEMMA SameIntact ==
  ASSUME Untouched, UNCHANGED <<diskVars, staged, touched>>
  PROVE  Untouched'
BY DEF Untouched, Intact, diskVars

LEMMA CoordinatorFrame ==
  ASSUME Coordinator
  PROVE  UNCHANGED <<sourceVars, diskVars, storeVars, astray, touched, faults>> /\ skipped \subseteq skipped'
<1>1. CASE Observe
  BY <1>1 DEF Observe, pastVars
<1>2. CASE Adopt
  BY <1>2 DEF Adopt, pastVars
<1>3. CASE Rest
  BY <1>3 DEF Rest, pastVars
<1>4. CASE PutOff
  BY <1>4 DEF PutOff, pastVars
<1>5. CASE AlreadyThere
  BY <1>5 DEF AlreadyThere, pastVars
<1>6. CASE BeginPrepare
  BY <1>6 DEF BeginPrepare
<1>7. CASE BeginAbort
  BY <1>7 DEF BeginAbort, pastVars
<1>8. CASE EndAbort
  BY <1>8 DEF EndAbort, pastVars
<1>9. CASE Drain
  BY <1>9 DEF Drain, pastVars
<1>10. CASE BeginCommit
  BY <1>10 DEF BeginCommit, pastVars
<1>11. CASE EndCommit
  BY <1>11 DEF EndCommit, pastVars
<1>12. CASE BeginCatchUp
  BY <1>12 DEF BeginCatchUp, pastVars
<1>13. CASE CatchCommit
  BY <1>13 DEF CatchCommit, pastVars
<1>14. CASE Caught
  BY <1>14 DEF Caught, pastVars
<1>15. CASE EndCatchUp
  BY <1>15 DEF EndCatchUp, pastVars
<1>16. CASE \E e \in Executors : Learn(e)
  BY <1>16 DEF Learn, pastVars
<1>17. CASE \E e \in Executors : CatchNext(e)
  BY <1>17 DEF CatchNext, pastVars
<1> QED
  BY <1>1, <1>2, <1>3, <1>4, <1>5, <1>6, <1>7, <1>8, <1>9, <1>10, <1>11, <1>12, <1>13, <1>14,
     <1>15, <1>16, <1>17 DEF Coordinator

\* A step of e: e stays intact, and nothing of another executor changes.
LEMMA OneIntact ==
  ASSUME Base, Untouched, NEW e \in Executors, touched \subseteq touched',
         \A x \in Executors \ {e} :
           /\ link'[x] = link[x] /\ releases'[x] = releases[x]
           /\ edited'[x] = edited[x] /\ staged'[x] = staged[x],
         e \notin touched' => Intact(e)'
  PROVE  Untouched'
BY DEF Untouched, Intact

LEMMA PrepareReuseIntact ==
  ASSUME Base, Untouched, NEW e \in Executors, NEW c \in calls, PrepareReuse(e, c) PROVE Untouched'
<1>1. e \notin touched => Intact(e)'
  BY DEF Untouched, Intact, PrepareReuse, Reusable, diskVars, Base, TypeOK
<1> QED
  BY <1>1, OneIntact DEF PrepareReuse, diskVars, pastVars, Base, TypeOK

\* prepare() takes nothing away: without edits there is no directory of another content.
LEMMA PrepareBeginIntact ==
  ASSUME Base, Untouched, NEW e \in Executors, NEW c \in calls, PrepareBegin(e, c) PROVE Untouched'
<1>1. e \notin touched => Intact(e)'
  BY DEF Untouched, Intact, PrepareBegin, Reusable, Base, TypeOK
<1> QED
  BY <1>1, OneIntact DEF PrepareBegin, pastVars, Base, TypeOK

LEMMA PrepareEndIntact ==
  ASSUME Base, Untouched, NEW e \in Executors, PrepareEnd(e) PROVE Untouched'
<1>1. e \notin touched => Intact(e)'
  BY DEF Untouched, Intact, PrepareEnd, Base, TypeOK
<1> QED
  BY <1>1, OneIntact DEF PrepareEnd, pastVars, Base, TypeOK

LEMMA CommitAtIntact ==
  ASSUME Base, Untouched, NEW e \in Executors, NEW c \in calls, CommitAt(e, c) PROVE Untouched'
<1>1. PICK gone \in SUBSET Spare(e, c.version) :
        /\ releases' = [releases EXCEPT ![e] = @ \ gone]
        /\ edited' = [edited EXCEPT ![e] = @ \ gone]
  BY DEF CommitAt
<1>2. /\ link'[e] = c.version /\ c.version \in staged[e] /\ staged'[e] = staged[e] \ {c.version}
      /\ releases'[e] = releases[e] \ gone /\ edited'[e] = edited[e] \ gone
  BY <1>1 DEF CommitAt, Base, TypeOK
<1>3. e \notin touched => Intact(e)'
  BY <1>2 DEF Untouched, Intact, Spare
<1> QED
  BY <1>1, <1>3, OneIntact DEF CommitAt, Base, TypeOK

LEMMA CommitBreaksIntact ==
  ASSUME Base, Untouched, NEW e \in Executors, NEW c \in calls, CommitBreaks(e, c) PROVE Untouched'
<1>1. /\ link'[e] \in {link[e], c.version} /\ c.version \in staged[e]
      /\ staged'[e] = staged[e] \ {c.version}
      /\ releases'[e] = releases[e] /\ edited'[e] = edited[e]
  BY DEF CommitBreaks, Base, TypeOK
<1>2. e \notin touched => Intact(e)'
  BY <1>1 DEF Untouched, Intact
<1>3. \A x \in Executors \ {e} : link'[x] = link[x] /\ staged'[x] = staged[x]
  BY DEF CommitBreaks, Base, TypeOK
<1> QED
  BY <1>2, <1>3, OneIntact DEF CommitBreaks, Base, TypeOK

LEMMA AbortAtIntact ==
  ASSUME Base, Untouched, NEW e \in Executors, NEW c \in calls, AbortAt(e, c) PROVE Untouched'
<1>1. e \notin touched => Intact(e)'
  BY DEF Untouched, Intact, AbortAt, Dropped, Base, TypeOK
<1> QED
  BY <1>1, OneIntact DEF AbortAt, pastVars, Base, TypeOK

LEMMA CrashIntact ==
  ASSUME Base, Untouched, NEW e \in Executors, Crash(e) PROVE Untouched'
<1>1. e \notin touched => Intact(e)'
  BY DEF Untouched, Intact, Crash, diskVars, Base, TypeOK
<1> QED
  BY <1>1, OneIntact DEF Crash, diskVars, pastVars, Base, TypeOK

LEMMA EditIntact ==
  ASSUME Base, Untouched, NEW e \in Executors, Edit(e) PROVE Untouched'
<1>1. e \in touched'
  BY DEF Edit
<1> QED
  BY <1>1, OneIntact DEF Edit, storeVars, Base, TypeOK

-----------------------------------------------------------------------------
(***************************************************************************)
(* Checked: which versions get where.                                      *)
(***************************************************************************)

LEMMA SameFit ==
  ASSUME FitAll, UNCHANGED <<diskVars, staged>> PROVE FitAll'
BY DEF FitAll, Fit, diskVars

\* A step of e.
LEMMA OneFit ==
  ASSUME FitAll, NEW e \in Executors,
         \A x \in Executors \ {e} :
           link'[x] = link[x] /\ releases'[x] = releases[x] /\ staged'[x] = staged[x],
         \A v \in ({link'[e]} \union releases'[e]) \union staged'[e] :
           v \in ({link[e]} \union releases[e]) \union staged[e] \/ Fit(e, v)
  PROVE  FitAll'
BY DEF FitAll, Fit

\* What was proven stays so.
LEMMA SameProven ==
  ASSUME ProvenAll, skipped \subseteq skipped', active' = active \/ Proven(active'),
         \A e \in Executors : /\ link'[e] = link[e] \/ Proven(link'[e])
                              /\ told'[e] = told[e] \/ Proven(told'[e])
                              /\ record'[e] = record[e] \/ Proven(record'[e]),
         \A d \in calls' : d.op = "commit" =>
           Proven(d.version) \/ \E c \in calls : c.op = d.op /\ c.version = d.version
  PROVE  ProvenAll'
BY DEF ProvenAll, Proven

\* No vote is counted that is not one.
LEMMA SameVoted ==
  ASSUME Voted, skipped \subseteq skipped', UNCHANGED <<step, sourceVersion, targets>>,
         \A x \in Executors : answer'[x] = "ok" =>
           answer[x] = "ok" \/ (step = "prepare" => Fit(x, sourceVersion))
  PROVE  Voted'
BY DEF Voted, Fit, Proven

\* The calls of a round.
LEMMA AskCalls ==
  ASSUME NEW S, NEW op, NEW v, Ask(S, op, v)
  PROVE  \A d \in calls' : d \in calls \/ (d.op = op /\ d.version = v)
BY DEF Ask

LEMMA ObserveChecked == ASSUME Base, Checked, Observe PROVE ProvenAll' /\ Voted'
<1>1. \A d \in calls' : d \in calls \/ (d.op = "status" /\ d.version = None)
  BY AskCalls DEF Observe
<1>2. ProvenAll'
  BY <1>1, SameProven, CoordinatorFrame DEF Checked, Coordinator, Observe, viewVars, diskVars
<1>3. Voted'
  BY DEF Observe, Voted
<1> QED
  BY <1>2, <1>3

LEMMA LearnChecked == ASSUME Base, Checked, NEW e \in Executors, Learn(e) PROVE ProvenAll' /\ Voted'
<1>1. Proven(told[e]) /\ Proven(None)
  BY DEF Checked, ProvenAll, Proven
<1>2. \A x \in Executors : /\ told'[x] = told[x] \/ Proven(told'[x])
                           /\ record'[x] = record[x] \/ Proven(record'[x])
  BY <1>1 DEF Learn, Base, TypeOK
<1>3. ProvenAll'
  BY <1>2 DEF Checked, ProvenAll, Proven, Learn, diskVars, pastVars
<1>4. Voted'
  BY DEF Learn, Voted
<1> QED
  BY <1>3, <1>4

LEMMA AdoptChecked == ASSUME Base, Checked, Adopt PROVE ProvenAll' /\ Voted'
<1>1. active' = active \/ \E e \in Executors : active' = record[e]
  BY DEF Adopt, Base, TypeOK
<1>2. ProvenAll'
  BY <1>1, SameProven, CoordinatorFrame DEF Checked, ProvenAll, Coordinator, Adopt, roundVars,
     diskVars
<1>3. Voted'
  BY DEF Adopt, Voted
<1> QED
  BY <1>2, <1>3

LEMMA RestChecked == ASSUME Base, Checked, Rest PROVE ProvenAll' /\ Voted'
<1>1. ProvenAll'
  BY SameProven, CoordinatorFrame DEF Checked, Coordinator, Rest, viewVars, roundVars, diskVars
<1>2. Voted'
  BY DEF Rest, EndCycle, Voted
<1> QED
  BY <1>1, <1>2

LEMMA PutOffChecked == ASSUME Base, Checked, PutOff PROVE ProvenAll' /\ Voted'
<1>1. ProvenAll'
  BY SameProven, CoordinatorFrame DEF Checked, Coordinator, PutOff, viewVars, roundVars, diskVars
<1>2. Voted'
  BY DEF PutOff, EndCycle, Voted
<1> QED
  BY <1>1, <1>2

LEMMA EndAbortChecked == ASSUME Base, Checked, EndAbort PROVE ProvenAll' /\ Voted'
<1>1. ProvenAll'
  BY SameProven, CoordinatorFrame DEF Checked, Coordinator, EndAbort, viewVars, roundVars, diskVars
<1>2. Voted'
  BY DEF EndAbort, EndCycle, Voted
<1> QED
  BY <1>1, <1>2

LEMMA AlreadyThereChecked == ASSUME Base, Checked, AlreadyThere PROVE ProvenAll' /\ Voted'
<1>1. PICK e \in Executors : record[e] = sourceVersion
  BY DEF AlreadyThere, Movable, Base, TypeOK
<1>2. ProvenAll'
  BY <1>1, SameProven, CoordinatorFrame DEF Checked, ProvenAll, Coordinator, AlreadyThere, diskVars
<1>3. Voted'
  BY DEF AlreadyThere, EndCycle, Voted
<1> QED
  BY <1>2, <1>3

LEMMA BeginPrepareChecked == ASSUME Base, Checked, BeginPrepare PROVE ProvenAll' /\ Voted'
<1>1. \A d \in calls' : d \in calls \/ (d.op = "prepare" /\ d.version = sourceVersion)
  BY AskCalls DEF BeginPrepare
<1>2. ProvenAll'
  BY <1>1, SameProven, CoordinatorFrame DEF Checked, Coordinator, BeginPrepare, viewVars, diskVars
<1>3. /\ step' = "prepare" /\ sourceVersion' = sourceVersion /\ targets' = Movable
      /\ answer' = [x \in Executors |-> IF x \in Movable THEN "wait" ELSE "none"]
      /\ skipped' = skipped \union (Executors \ reachable)
      /\ sourceVersion \in Versions
  BY DEF BeginPrepare, Due, Ask, cycleVars, Base, TypeOK
<1>4. ASSUME NEW x \in Executors
      PROVE  x \in skipped' \/ Fit(x, sourceVersion) \/ (x \in targets' /\ answer'[x] # "ok")
  <2>1. CASE x \notin reachable
    BY <1>3, <2>1
  <2>2. CASE x \in Movable
    BY <1>3, <2>2
  <2>3. CASE x \in reachable /\ x \notin Movable
    <3>1. Proven(sourceVersion)
      BY <2>3 DEF Movable, Checked, ProvenAll
    <3> QED
      BY <1>3, <3>1, VersionsAssumption DEF Proven, Fit
  <2> QED
    BY <2>1, <2>2, <2>3
<1>5. Voted'
  BY <1>3, <1>4 DEF Voted, Fit
<1> QED
  BY <1>2, <1>5

LEMMA BeginAbortChecked == ASSUME Base, Checked, BeginAbort PROVE ProvenAll' /\ Voted'
<1>1. \A d \in calls' : d \in calls \/ (d.op = "abort" /\ d.version = sourceVersion)
  BY AskCalls DEF BeginAbort
<1>2. ProvenAll'
  BY <1>1, SameProven, CoordinatorFrame DEF Checked, Coordinator, BeginAbort, viewVars, diskVars
<1>3. Voted'
  BY DEF BeginAbort, Voted
<1> QED
  BY <1>2, <1>3

LEMMA DrainChecked == ASSUME Base, Checked, Drain PROVE ProvenAll' /\ Voted'
<1>1. ProvenAll'
  BY SameProven, CoordinatorFrame DEF Checked, Coordinator, Drain, viewVars, roundVars, diskVars
<1>2. Proven(sourceVersion)
  BY DEF Drain, AllAgree, Agreeing, Checked, Voted, Proven, Fit
<1>3. Voted'
  BY <1>2 DEF Drain, Voted, Proven, cycleVars, pastVars
<1> QED
  BY <1>1, <1>3

LEMMA BeginCommitChecked == ASSUME Base, Checked, BeginCommit PROVE ProvenAll' /\ Voted'
<1>1. Proven(sourceVersion)
  BY DEF BeginCommit, Checked, Voted
<1>2. \A d \in calls' : d \in calls \/ (d.op = "commit" /\ d.version = sourceVersion)
  BY AskCalls DEF BeginCommit
<1>3. ProvenAll'
  BY <1>1, <1>2, SameProven, CoordinatorFrame DEF Checked, Coordinator, BeginCommit, viewVars,
     diskVars
<1>4. Voted'
  BY <1>1 DEF BeginCommit, Voted, Proven, cycleVars, pastVars
<1> QED
  BY <1>3, <1>4

LEMMA EndCommitChecked == ASSUME Base, Checked, EndCommit PROVE ProvenAll' /\ Voted'
<1>1. Proven(sourceVersion)
  BY DEF EndCommit, Checked, Voted
<1>2. \A x \in Executors : record'[x] = record[x] \/ record'[x] = sourceVersion
  BY DEF EndCommit, Moved
<1>3. ProvenAll'
  BY <1>1, <1>2, SameProven, CoordinatorFrame DEF Checked, Coordinator, EndCommit, diskVars
<1>4. Voted'
  BY DEF EndCommit, EndCycle, Voted
<1> QED
  BY <1>3, <1>4

LEMMA BeginCatchUpChecked == ASSUME Base, Checked, BeginCatchUp PROVE ProvenAll' /\ Voted'
<1>1. ProvenAll'
  BY SameProven, CoordinatorFrame DEF Checked, Coordinator, BeginCatchUp, viewVars, diskVars
<1>2. Voted'
  BY DEF BeginCatchUp, EndCycle, Voted
<1> QED
  BY <1>1, <1>2

LEMMA CatchNextChecked ==
  ASSUME Base, Checked, NEW e \in Executors, CatchNext(e)
  PROVE  ProvenAll' /\ Voted'
<1>1. \A d \in calls' : d \in calls \/ (d.op = "prepare" /\ d.version = active)
  BY AskCalls DEF CatchNext
<1>2. ProvenAll'
  BY <1>1, SameProven, CoordinatorFrame DEF Checked, Coordinator, CatchNext, viewVars, diskVars
<1>3. Voted'
  BY DEF CatchNext, Voted
<1> QED
  BY <1>2, <1>3

LEMMA CatchCommitChecked == ASSUME Base, Checked, CatchCommit PROVE ProvenAll' /\ Voted'
<1>1. Proven(active)
  BY DEF Checked, ProvenAll
<1>2. \A d \in calls' : d \in calls \/ (d.op = "commit" /\ d.version = active)
  BY AskCalls DEF CatchCommit
<1>3. ProvenAll'
  BY <1>1, <1>2, SameProven, CoordinatorFrame DEF Checked, Coordinator, CatchCommit, viewVars,
     diskVars
<1>4. Voted'
  BY DEF CatchCommit, Voted
<1> QED
  BY <1>3, <1>4

LEMMA CaughtChecked == ASSUME Base, Checked, Caught PROVE ProvenAll' /\ Voted'
<1>1. \A x \in Executors : record'[x] = record[x] \/ record'[x] = active
  BY DEF Caught
<1>2. ProvenAll'
  BY <1>1, SameProven, CoordinatorFrame DEF Checked, ProvenAll, Coordinator, Caught, roundVars,
     diskVars
<1>3. Voted'
  BY DEF Caught, Voted
<1> QED
  BY <1>2, <1>3

LEMMA EndCatchUpChecked == ASSUME Base, Checked, EndCatchUp PROVE ProvenAll' /\ Voted'
<1>1. ProvenAll'
  BY SameProven, CoordinatorFrame DEF Checked, Coordinator, EndCatchUp, viewVars, roundVars,
     diskVars
<1>2. Voted'
  BY DEF EndCatchUp, EndCycle, Voted
<1> QED
  BY <1>1, <1>2

LEMMA StatusAtChecked ==
  ASSUME Base, Checked, NEW e \in Executors, NEW c \in calls, StatusAt(e, c) PROVE Checked'
<1>1. /\ c \in Calls /\ calls' = calls \ {c} /\ c.to = e /\ answer' = Reply(c, "ok")
      /\ (c.live => OfRound(c))
  BY DEF StatusAt, Takes, Base, TypeOK, Asked
<1>2. FitAll'
  BY SameFit DEF Checked, StatusAt, storeVars
<1>6. Proven(Tree(e))
  BY DEF Tree, Checked, ProvenAll, Proven
<1>7. \A x \in Executors : told'[x] = told[x] \/ Proven(told'[x])
  BY <1>6 DEF StatusAt, Base, TypeOK
<1>3. ProvenAll'
  BY <1>1, <1>7, SameProven DEF Checked, StatusAt, viewVars, roundVars, diskVars, pastVars
<1>4. \A x \in Executors : answer'[x] = "ok" =>
        answer[x] = "ok" \/ (step = "prepare" => Fit(x, sourceVersion))
  BY <1>1 DEF Reply, OfRound, StatusAt, Takes, Base, TypeOK
<1>5. Voted'
  BY <1>4, SameVoted DEF Checked, StatusAt, cycleVars, pastVars
<1> QED
  BY <1>2, <1>3, <1>5 DEF Checked

LEMMA PrepareReuseChecked ==
  ASSUME Base, Checked, NEW e \in Executors, NEW c \in calls, PrepareReuse(e, c) PROVE Checked'
<1>1. /\ c \in Calls /\ calls' = calls \ {c} /\ c.to = e /\ answer' = Reply(c, "ok")
      /\ (c.live => OfRound(c))
  BY DEF PrepareReuse, Takes, Base, TypeOK, Asked
<1>2. FitAll'
  BY OneFit DEF Checked, PrepareReuse, Reusable, diskVars, Base, TypeOK
<1>3. ProvenAll'
  BY <1>1, SameProven DEF Checked, PrepareReuse, viewVars, roundVars, diskVars, pastVars
<1>4. \A x \in Executors : answer'[x] = "ok" =>
        answer[x] = "ok" \/ (step = "prepare" => Fit(x, sourceVersion))
  BY <1>1 DEF Reply, OfRound, PrepareReuse, Takes, Base, TypeOK, Checked, FitAll, Reusable
<1>5. Voted'
  BY <1>4, SameVoted DEF Checked, PrepareReuse, cycleVars, pastVars
<1> QED
  BY <1>2, <1>3, <1>5 DEF Checked

LEMMA PrepareBeginChecked ==
  ASSUME Base, Checked, NEW e \in Executors, NEW c \in calls, PrepareBegin(e, c) PROVE Checked'
<1>1. FitAll'
  BY OneFit DEF Checked, PrepareBegin, Base, TypeOK
<1>2. ProvenAll'
  BY SameProven DEF Checked, PrepareBegin, viewVars, roundVars, pastVars
<1>3. Voted'
  BY SameVoted DEF Checked, PrepareBegin, cycleVars, roundVars, pastVars
<1> QED
  BY <1>1, <1>2, <1>3 DEF Checked

LEMMA PrepareEndChecked ==
  ASSUME Base, Checked, NEW e \in Executors, PrepareEnd(e) PROVE Checked'
<1> DEFINE c == installing[e]
<1>1. /\ c \in Calls /\ c.to = e /\ answer' = Reply(c, "ok") /\ Fit(e, c.version)
      /\ (c.live => OfRound(c) /\ c.op = "prepare")
  BY DEF PrepareEnd, Base, TypeOK, Installs, Fit
<1>2. FitAll'
  BY <1>1, OneFit DEF Checked, PrepareEnd, Base, TypeOK
<1>3. ProvenAll'
  BY SameProven DEF Checked, PrepareEnd, viewVars, pastVars
<1>4. \A x \in Executors : answer'[x] = "ok" =>
        answer[x] = "ok" \/ (step = "prepare" => Fit(x, sourceVersion))
  BY <1>1 DEF Reply, OfRound, Base, TypeOK
<1>5. Voted'
  BY <1>4, SameVoted DEF Checked, PrepareEnd, cycleVars, pastVars
<1> QED
  BY <1>2, <1>3, <1>5 DEF Checked

LEMMA PrepareFailsChecked ==
  ASSUME Base, Checked, NEW e \in Executors, PrepareFails(e) PROVE Checked'
<1>1. \A x \in Executors : answer'[x] = "ok" => answer[x] = "ok"
  BY DEF PrepareFails, Reply, Base, TypeOK
<1>2. FitAll'
  BY SameFit DEF Checked, PrepareFails
<1>3. ProvenAll'
  BY SameProven DEF Checked, PrepareFails, viewVars, diskVars, pastVars
<1>4. Voted'
  BY <1>1, SameVoted DEF Checked, PrepareFails, cycleVars, pastVars
<1> QED
  BY <1>2, <1>3, <1>4 DEF Checked

LEMMA CommitAtChecked ==
  ASSUME Base, Checked, NEW e \in Executors, NEW c \in calls, CommitAt(e, c) PROVE Checked'
<1>1. /\ c \in Calls /\ calls' = calls \ {c} /\ c.to = e /\ answer' = Reply(c, "ok")
      /\ (c.live => OfRound(c))
  BY DEF CommitAt, Takes, Base, TypeOK, Asked
<1>6. /\ link'[e] = c.version /\ c.version \in staged[e] /\ staged'[e] \subseteq staged[e]
      /\ \A x \in Executors : releases'[x] \subseteq releases[x]
      /\ \A x \in Executors \ {e} :
           link'[x] = link[x] /\ releases'[x] = releases[x] /\ staged'[x] = staged[x]
  BY DEF CommitAt, Base, TypeOK
<1>2. FitAll'
  BY <1>6, OneFit DEF Checked
<1>7. Proven(c.version)
  BY DEF CommitAt, Takes, Checked, ProvenAll
<1>3. ProvenAll'
  BY <1>1, <1>6, <1>7, SameProven DEF Checked, CommitAt, viewVars, roundVars, diskVars, pastVars
<1>4. \A x \in Executors : answer'[x] = "ok" =>
        answer[x] = "ok" \/ (step = "prepare" => Fit(x, sourceVersion))
  BY <1>1 DEF Reply, OfRound, CommitAt, Takes, Base, TypeOK
<1>5. Voted'
  BY <1>4, SameVoted DEF Checked, CommitAt, cycleVars, pastVars
<1> QED
  BY <1>2, <1>3, <1>5 DEF Checked

LEMMA CommitBreaksChecked ==
  ASSUME Base, Checked, NEW e \in Executors, NEW c \in calls, CommitBreaks(e, c) PROVE Checked'
<1>1. /\ c \in Calls /\ calls' = calls \ {c} /\ c.to = e /\ answer' = Reply(c, "fail")
      /\ (c.live => OfRound(c))
  BY DEF CommitBreaks, Takes, Base, TypeOK, Asked
<1>2. /\ link'[e] \in {link[e], c.version} /\ c.version \in staged[e] /\ staged'[e] \subseteq staged[e]
      /\ releases' = releases
      /\ \A x \in Executors \ {e} : link'[x] = link[x] /\ staged'[x] = staged[x]
  BY DEF CommitBreaks, Base, TypeOK
<1>3. FitAll'
  BY <1>2, OneFit DEF Checked
<1>4. Proven(c.version)
  BY DEF CommitBreaks, Takes, Checked, ProvenAll
<1>5. ProvenAll'
  BY <1>1, <1>2, <1>4, SameProven DEF Checked, CommitBreaks, viewVars, roundVars, diskVars, pastVars
<1>6. \A x \in Executors : answer'[x] = "ok" =>
        answer[x] = "ok" \/ (step = "prepare" => Fit(x, sourceVersion))
  BY <1>1 DEF Reply, OfRound, CommitBreaks, Takes, Base, TypeOK
<1>7. Voted'
  BY <1>6, SameVoted DEF Checked, CommitBreaks, cycleVars, pastVars
<1> QED
  BY <1>3, <1>5, <1>7 DEF Checked

LEMMA CommitRefusedChecked ==
  ASSUME Base, Checked, NEW e \in Executors, NEW c \in calls, CommitRefused(e, c) PROVE Checked'
<1>1. /\ c \in Calls /\ calls' = calls \ {c} /\ c.to = e /\ answer' = Reply(c, "fail")
      /\ (c.live => OfRound(c))
  BY DEF CommitRefused, Takes, Base, TypeOK, Asked
<1>2. FitAll'
  BY SameFit DEF Checked, CommitRefused, storeVars
<1>3. ProvenAll'
  BY <1>1, SameProven DEF Checked, CommitRefused, viewVars, roundVars, diskVars, pastVars
<1>4. \A x \in Executors : answer'[x] = "ok" =>
        answer[x] = "ok" \/ (step = "prepare" => Fit(x, sourceVersion))
  BY <1>1 DEF Reply, OfRound, CommitRefused, Takes, Base, TypeOK
<1>5. Voted'
  BY <1>4, SameVoted DEF Checked, CommitRefused, cycleVars, pastVars
<1> QED
  BY <1>2, <1>3, <1>5 DEF Checked

LEMMA AbortAtChecked ==
  ASSUME Base, Checked, NEW e \in Executors, NEW c \in calls, AbortAt(e, c) PROVE Checked'
<1>1. /\ c \in Calls /\ calls' = calls \ {c} /\ c.to = e /\ answer' = Reply(c, "ok")
      /\ (c.live => OfRound(c))
  BY DEF AbortAt, Takes, Base, TypeOK, Asked
<1>2. FitAll'
  BY OneFit DEF Checked, AbortAt, Base, TypeOK
<1>3. ProvenAll'
  BY <1>1, SameProven DEF Checked, AbortAt, viewVars, roundVars, diskVars, pastVars
<1>4. \A x \in Executors : answer'[x] = "ok" =>
        answer[x] = "ok" \/ (step = "prepare" => Fit(x, sourceVersion))
  BY <1>1 DEF Reply, OfRound, AbortAt, Takes, Base, TypeOK
<1>5. Voted'
  BY <1>4, SameVoted DEF Checked, AbortAt, cycleVars, pastVars
<1> QED
  BY <1>2, <1>3, <1>5 DEF Checked

LEMMA RefusedChecked ==
  ASSUME Base, Checked, NEW e \in Executors, Refused(e) PROVE Checked'
<1>1. \A x \in Executors : answer'[x] = "ok" => answer[x] = "ok"
  BY DEF Refused, Base, TypeOK
<1>2. FitAll'
  BY SameFit DEF Checked, Refused, storeVars
<1>3. ProvenAll'
  BY SameProven DEF Checked, Refused, viewVars, diskVars, pastVars
<1>4. Voted'
  BY <1>1, SameVoted DEF Checked, Refused, cycleVars, pastVars
<1> QED
  BY <1>2, <1>3, <1>4 DEF Checked

LEMMA ResetChecked ==
  ASSUME Base, Checked, NEW e \in Executors, Reset(e) PROVE Checked'
<1>1. \A x \in Executors : answer'[x] = "ok" => answer[x] = "ok"
  BY DEF Reset, Base, TypeOK
<1>2. FitAll'
  BY SameFit DEF Checked, Reset, storeVars
<1>3. ProvenAll'
  BY SameProven DEF Checked, Reset, viewVars, diskVars, pastVars
<1>4. Voted'
  BY <1>1, SameVoted DEF Checked, Reset, cycleVars, pastVars
<1> QED
  BY <1>2, <1>3, <1>4 DEF Checked

\* Of what Checked is about, nothing changes.
LEMMA StillChecked ==
  ASSUME Checked, UNCHANGED <<step, cycleVars, viewVars, roundVars, calls, link, releases, skipped>>,
         \A x \in Executors : staged'[x] \subseteq staged[x]
  PROVE  Checked'
<1>1. FitAll'
  BY DEF Checked, FitAll, Fit
<1>2. ProvenAll'
  BY SameProven DEF Checked, viewVars, roundVars
<1>3. Voted'
  BY SameVoted DEF Checked, cycleVars, roundVars
<1> QED
  BY <1>1, <1>2, <1>3 DEF Checked

LEMMA GiveUpChecked ==
  ASSUME Base, Checked, NEW e \in Executors, GiveUp(e) PROVE Checked'
<1>1. Awaited(e) \in SUBSET Calls
  BY DEF Base, TypeOK, Awaited
<1>2. \A d \in calls' : \E c \in calls : c.op = d.op /\ c.version = d.version
  BY <1>1, AbandonedCalls DEF GiveUp, Awaited
<1>3. \A x \in Executors : answer'[x] = "ok" => answer[x] = "ok"
  BY DEF GiveUp, Base, TypeOK
<1>4. FitAll'
  BY SameFit DEF Checked, GiveUp
<1>5. ProvenAll'
  BY <1>2, SameProven DEF Checked, GiveUp, viewVars, diskVars, pastVars
<1>6. Voted'
  BY <1>3, SameVoted DEF Checked, GiveUp, cycleVars, pastVars
<1> QED
  BY <1>4, <1>5, <1>6 DEF Checked

LEMMA CrashChecked ==
  ASSUME Base, Checked, NEW e \in Executors, Crash(e) PROVE Checked'
BY StillChecked DEF Crash, diskVars, pastVars, Base, TypeOK

LEMMA CoordinatorRestartChecked == ASSUME Base, Checked, CoordinatorRestart PROVE Checked'
<1>1. \A d \in calls' : \E c \in calls : c.op = d.op /\ c.version = d.version
  BY AbandonedCalls DEF CoordinatorRestart, Base, TypeOK
<1>2. Proven(None)
  BY DEF Proven
<1>3. FitAll'
  BY SameFit DEF Checked, CoordinatorRestart
<1>4. ProvenAll'
  BY <1>1, <1>2, SameProven DEF Checked, CoordinatorRestart, Fresh, diskVars, pastVars
<1>5. Voted'
  BY DEF CoordinatorRestart, Voted
<1> QED
  BY <1>3, <1>4, <1>5 DEF Checked

-----------------------------------------------------------------------------
(***************************************************************************)
(* Believed: what the coordinator notes of an executor.                    *)
(***************************************************************************)

LEMMA ObserveBelieved == ASSUME Base, Believed, Observe PROVE Believed'
<1>1. /\ step = "idle" /\ step' = "refresh"
      /\ answer' = [x \in Executors |-> IF x \in Executors THEN "wait" ELSE "none"]
      /\ UNCHANGED <<active, record, reachable, link, astray, touched>>
  BY DEF Observe, Ask, viewVars, diskVars, pastVars
<1>2. Reported' /\ Behind'
  BY <1>1 DEF Reported, Behind, Catching
<1>3. Noting'
  BY <1>1 DEF Believed, Plain, Noting, Noted, Base, TypeOK
<1> QED
  BY <1>2, <1>3 DEF Believed

LEMMA LearnBelieved == ASSUME Base, Believed, NEW e \in Executors, Learn(e) PROVE Believed'
<1>1. /\ step = "refresh" /\ step' = "refresh" /\ answer[e] \in {"ok", "fail"}
      /\ answer' = [answer EXCEPT ![e] = "seen"] /\ told' = [told EXCEPT ![e] = None]
      /\ UNCHANGED <<active, link, astray, touched>>
      /\ IF answer[e] = "ok"
         THEN record' = [record EXCEPT ![e] = told[e]] /\ reachable' = reachable \union {e}
         ELSE record' = record /\ reachable' = reachable \ {e}
  BY DEF Learn, diskVars, pastVars
<1>2. Reported'
  BY <1>1 DEF Believed, Reported, Base, TypeOK
<1>3. Behind'
  BY <1>1 DEF Behind, Catching
<1>4. Noting'
  <2> SUFFICES ASSUME NEW x \in Plain' PROVE Noted(x)'
    BY DEF Noting
  <2>1. CASE x = e
    <3>1. answer[e] = "ok" /\ e \in (Executors \ astray) \ touched
      BY <1>1, <2>1 DEF Plain
    <3>2. record'[e] = told[e] /\ told[e] = link[e]
      BY <1>1, <3>1 DEF Believed, Reported, Base, TypeOK
    <3> QED
      BY <1>1, <2>1, <3>2 DEF Noted
  <2>2. CASE x # e
    <3>1. x \in Plain /\ record'[x] = record[x] /\ answer'[x] = answer[x]
      BY <1>1, <2>2 DEF Plain, Base, TypeOK
    <3> QED
      BY <1>1, <3>1 DEF Believed, Noting, Noted
  <2> QED
    BY <2>1, <2>2
<1> QED
  BY <1>2, <1>3, <1>4 DEF Believed

LEMMA AdoptBelieved == ASSUME Base, Believed, Adopt PROVE Believed'
<1>1. Reported'
  BY DEF Adopt, Reported, EndCycle
<1>2. Behind'
  BY DEF Adopt, Believed, Behind, Catching, EndCycle, roundVars
<1>3. Noting'
  BY DEF Adopt, Believed, Plain, Noting, Noted, Base, TypeOK, EndCycle, diskVars, pastVars,
     roundVars
<1> QED
  BY <1>1, <1>2, <1>3 DEF Believed

LEMMA RestBelieved == ASSUME Base, Believed, Rest PROVE Believed'
<1>1. Reported'
  BY DEF Rest, Reported, EndCycle
<1>2. Behind'
  BY DEF Rest, Believed, Behind, Catching, EndCycle, viewVars, cycleVars
<1>3. Noting'
  BY DEF Rest, Believed, Plain, Noting, Noted, Base, TypeOK, EndCycle, diskVars, pastVars,
     viewVars, cycleVars
<1> QED
  BY <1>1, <1>2, <1>3 DEF Believed

LEMMA PutOffBelieved == ASSUME Base, Believed, PutOff PROVE Believed'
<1>1. Reported'
  BY DEF PutOff, Reported, EndCycle
<1>2. Behind'
  BY DEF PutOff, Believed, Behind, Catching, EndCycle, viewVars, cycleVars
<1>3. Noting'
  BY DEF PutOff, Believed, Plain, Noting, Noted, Base, TypeOK, EndCycle, diskVars, pastVars,
     viewVars, cycleVars
<1> QED
  BY <1>1, <1>2, <1>3 DEF Believed

LEMMA EndAbortBelieved == ASSUME Base, Believed, EndAbort PROVE Believed'
<1>1. Reported'
  BY DEF EndAbort, Reported, EndCycle
<1>2. Behind'
  BY DEF EndAbort, Believed, Behind, Catching, EndCycle, viewVars, cycleVars
<1>3. Noting'
  BY DEF EndAbort, Believed, Plain, Noting, Noted, Base, TypeOK, EndCycle, diskVars, pastVars,
     viewVars, cycleVars
<1> QED
  BY <1>1, <1>2, <1>3 DEF Believed

LEMMA AlreadyThereBelieved == ASSUME Base, Believed, AlreadyThere PROVE Believed'
<1>1. Reported'
  BY DEF AlreadyThere, Reported, EndCycle
<1>2. Behind'
  BY DEF AlreadyThere, Believed, Behind, Catching, EndCycle, cycleVars, Movable
<1>3. Noting'
  BY DEF AlreadyThere, Believed, Plain, Noting, Noted, Base, TypeOK, EndCycle, diskVars, pastVars,
     cycleVars, Movable
<1> QED
  BY <1>1, <1>2, <1>3 DEF Believed

LEMMA BeginPrepareBelieved == ASSUME Base, Believed, BeginPrepare PROVE Believed'
<1>1. Reported'
  BY DEF BeginPrepare, Reported, EndCycle
<1>2. Behind'
  BY DEF BeginPrepare, Believed, Behind, Catching, EndCycle, Ask, Movable, viewVars, cycleVars
<1>3. Noting'
  BY DEF BeginPrepare, Believed, Plain, Noting, Noted, Base, TypeOK, EndCycle, diskVars, pastVars,
     Ask, Movable, viewVars, cycleVars
<1> QED
  BY <1>1, <1>2, <1>3 DEF Believed

LEMMA BeginAbortBelieved == ASSUME Base, Believed, BeginAbort PROVE Believed'
<1>1. Reported'
  BY DEF BeginAbort, Reported, EndCycle
<1>2. Behind'
  BY DEF BeginAbort, Believed, Behind, Catching, EndCycle, Ask, viewVars, cycleVars
<1>3. Noting'
  BY DEF BeginAbort, Believed, Plain, Noting, Noted, Base, TypeOK, EndCycle, diskVars, pastVars,
     Ask, viewVars, cycleVars
<1> QED
  BY <1>1, <1>2, <1>3 DEF Believed

LEMMA DrainBelieved == ASSUME Base, Believed, Drain PROVE Believed'
<1>1. Reported'
  BY DEF Drain, Reported, EndCycle
<1>2. Behind'
  BY DEF Drain, Believed, Behind, Catching, EndCycle, viewVars, cycleVars, roundVars
<1>3. Noting'
  BY DEF Drain, Believed, Plain, Noting, Noted, Base, TypeOK, EndCycle, diskVars, pastVars,
     viewVars, cycleVars, roundVars
<1> QED
  BY <1>1, <1>2, <1>3 DEF Believed

LEMMA BeginCommitBelieved == ASSUME Base, Believed, BeginCommit PROVE Believed'
<1>1. Reported'
  BY DEF BeginCommit, Reported, EndCycle
<1>2. Behind'
  BY DEF BeginCommit, Believed, Behind, Catching, EndCycle, Ask, viewVars, cycleVars
<1>3. Noting'
  BY DEF BeginCommit, Believed, Plain, Noting, Noted, Base, TypeOK, EndCycle, diskVars, pastVars,
     Ask, viewVars, cycleVars
<1> QED
  BY <1>1, <1>2, <1>3 DEF Believed

LEMMA EndCommitBelieved == ASSUME Base, Believed, EndCommit PROVE Believed'
<1>1. /\ step = "commit" /\ step' = "idle" /\ record' = Moved /\ active' = sourceVersion
      /\ UNCHANGED <<reachable, link, astray, touched>>
  BY DEF EndCommit, EndCycle, diskVars, pastVars
<1>2. Reported' /\ Behind'
  BY <1>1 DEF Reported, Behind, Catching
<1>3. Noting'
  BY <1>1 DEF Believed, Behind, Plain, Noting, Noted, Moved, Agreeing, Base, TypeOK
<1> QED
  BY <1>2, <1>3 DEF Believed

LEMMA BeginCatchUpBelieved == ASSUME Base, Believed, BeginCatchUp PROVE Believed'
<1>1. Reported'
  BY DEF BeginCatchUp, Reported, EndCycle
<1>2. Behind'
  BY DEF BeginCatchUp, Believed, Behind, Catching, EndCycle, Lagging, viewVars, cycleVars
<1>3. Noting'
  BY DEF BeginCatchUp, Believed, Plain, Noting, Noted, Base, TypeOK, EndCycle, diskVars, pastVars,
     Lagging, viewVars, cycleVars
<1> QED
  BY <1>1, <1>2, <1>3 DEF Believed

LEMMA CatchNextBelieved == ASSUME Base, Believed, NEW e \in Executors, CatchNext(e) PROVE Believed'
<1>1. Reported'
  BY DEF CatchNext, Reported, EndCycle
<1>2. Behind'
  BY DEF CatchNext, Believed, Behind, Catching, EndCycle, Ask, viewVars, cycleVars
<1>3. Noting'
  BY DEF CatchNext, Believed, Plain, Noting, Noted, Base, TypeOK, EndCycle, diskVars, pastVars,
     Ask, viewVars, cycleVars
<1> QED
  BY <1>1, <1>2, <1>3 DEF Believed

LEMMA CatchCommitBelieved == ASSUME Base, Believed, CatchCommit PROVE Believed'
<1>1. Reported'
  BY DEF CatchCommit, Reported, EndCycle
<1>2. Behind'
  BY DEF CatchCommit, Believed, Behind, Catching, EndCycle, Ask, viewVars, cycleVars
<1>3. Noting'
  BY DEF CatchCommit, Believed, Plain, Noting, Noted, Base, TypeOK, EndCycle, diskVars, pastVars,
     Ask, viewVars, cycleVars
<1> QED
  BY <1>1, <1>2, <1>3 DEF Believed

LEMMA CaughtBelieved == ASSUME Base, Believed, Caught PROVE Believed'
<1>1. /\ step \in {"catchPrepare", "catchCommit"} /\ step' = "catch"
      /\ UNCHANGED <<active, reachable, targets, queue, answer, link, astray, touched>>
      /\ IF AllAgree THEN record' = [x \in Executors |-> IF x \in targets THEN active ELSE record[x]]
                     ELSE record' = record
      /\ step = "catchPrepare" => ~AllAgree
  BY DEF Caught, roundVars, diskVars, pastVars
<1>2. Reported'
  BY <1>1 DEF Reported
<1>3. Behind'
  BY <1>1 DEF Believed, Behind, Catching, Base, TypeOK
<1>4. Noting'
  BY <1>1 DEF Believed, Plain, Noting, Noted, AllAgree, Agreeing, Base, TypeOK
<1> QED
  BY <1>2, <1>3, <1>4 DEF Believed

LEMMA EndCatchUpBelieved == ASSUME Base, Believed, EndCatchUp PROVE Believed'
<1>1. Reported'
  BY DEF EndCatchUp, Reported, EndCycle
<1>2. Behind'
  BY DEF EndCatchUp, Believed, Behind, Catching, EndCycle, viewVars, cycleVars
<1>3. Noting'
  BY DEF EndCatchUp, Believed, Plain, Noting, Noted, Base, TypeOK, EndCycle, diskVars, pastVars,
     viewVars, cycleVars
<1> QED
  BY <1>1, <1>2, <1>3 DEF Believed

\* A step that answers no status call and no commit, and changes no link.
LEMMA StillBelieved ==
  ASSUME Base, Believed, UNCHANGED <<step, sourceVersion, viewVars, targets, queue, link>>,
         astray \subseteq astray', touched \subseteq touched',
         \A x \in Executors :
           /\ told'[x] = told[x]
           /\ \/ answer'[x] = answer[x] \/ answer'[x] = "fail"
              \/ answer'[x] = "ok" /\ step \notin {"refresh", "commit", "catchCommit"}
  PROVE  Believed'
<1>1. Reported'
  BY DEF Believed, Reported, viewVars
<1>2. Behind'
  BY DEF Believed, Behind, Catching, viewVars
<1>3. Noting'
  BY DEF Believed, Plain, Noting, Noted, viewVars, Base, TypeOK
<1> QED
  BY <1>1, <1>2, <1>3 DEF Believed

LEMMA StatusAtBelieved ==
  ASSUME Base, Untouched, Believed, NEW e \in Executors, NEW c \in calls, StatusAt(e, c)
  PROVE  Believed'
<1>1. /\ c \in Calls /\ c.to = e /\ answer' = Reply(c, "ok") /\ (c.live => step = "refresh")
      /\ told' = [told EXCEPT ![e] = Tree(e)]
      /\ UNCHANGED <<step, sourceVersion, active, record, reachable, targets, queue, link, astray, touched>>
  BY DEF StatusAt, Takes, Base, TypeOK, Asked, OfRound, cycleVars, viewVars, diskVars, pastVars
<1>2. Reported'
  <2>1. e \notin touched => Tree(e) = link[e]
    BY DEF Untouched, Intact, Tree
  <2> QED
    BY <1>1, <2>1 DEF Believed, Reported, Reply, Base, TypeOK
<1>3. Behind'
  BY <1>1 DEF Believed, Behind, Catching
<1>4. Noting'
  BY <1>1 DEF Believed, Plain, Noting, Noted, Reply, Base, TypeOK
<1> QED
  BY <1>2, <1>3, <1>4 DEF Believed

LEMMA PrepareReuseBelieved ==
  ASSUME Base, Believed, NEW e \in Executors, NEW c \in calls, PrepareReuse(e, c) PROVE Believed'
<1>1. /\ c \in Calls /\ c.to = e /\ answer' = Reply(c, "ok")
      /\ (c.live => step \notin {"refresh", "commit", "catchCommit"})
  BY DEF PrepareReuse, Takes, Base, TypeOK, Asked, OfRound
<1>2. \A x \in Executors :
        \/ answer'[x] = answer[x] \/ answer'[x] = "fail"
        \/ answer'[x] = "ok" /\ step \notin {"refresh", "commit", "catchCommit"}
  BY <1>1 DEF Reply, Base, TypeOK
<1> QED
  BY <1>2, StillBelieved DEF PrepareReuse, cycleVars, diskVars, pastVars

LEMMA CommitRefusedBelieved ==
  ASSUME Base, Believed, NEW e \in Executors, NEW c \in calls, CommitRefused(e, c) PROVE Believed'
<1>1. /\ c \in Calls /\ c.to = e /\ answer' = Reply(c, "fail")
  BY DEF CommitRefused, Takes, Base, TypeOK, Asked, OfRound
<1>2. \A x \in Executors :
        \/ answer'[x] = answer[x] \/ answer'[x] = "fail"
        \/ answer'[x] = "ok" /\ step \notin {"refresh", "commit", "catchCommit"}
  BY <1>1 DEF Reply, Base, TypeOK
<1> QED
  BY <1>2, StillBelieved DEF CommitRefused, cycleVars, diskVars, pastVars

LEMMA AbortAtBelieved ==
  ASSUME Base, Believed, NEW e \in Executors, NEW c \in calls, AbortAt(e, c) PROVE Believed'
<1>1. /\ c \in Calls /\ c.to = e /\ answer' = Reply(c, "ok")
      /\ (c.live => step \notin {"refresh", "commit", "catchCommit"})
  BY DEF AbortAt, Takes, Base, TypeOK, Asked, OfRound
<1>2. \A x \in Executors :
        \/ answer'[x] = answer[x] \/ answer'[x] = "fail"
        \/ answer'[x] = "ok" /\ step \notin {"refresh", "commit", "catchCommit"}
  BY <1>1 DEF Reply, Base, TypeOK
<1> QED
  BY <1>2, StillBelieved DEF AbortAt, cycleVars, pastVars

LEMMA PrepareBeginBelieved ==
  ASSUME Base, Believed, NEW e \in Executors, NEW c \in calls, PrepareBegin(e, c) PROVE Believed'
BY StillBelieved DEF PrepareBegin, cycleVars, roundVars, pastVars

LEMMA PrepareEndBelieved ==
  ASSUME Base, Believed, NEW e \in Executors, PrepareEnd(e) PROVE Believed'
<1>1. /\ installing[e] \in Calls /\ installing[e].to = e /\ answer' = Reply(installing[e], "ok")
      /\ (installing[e].live => step \notin {"refresh", "commit", "catchCommit"})
  BY DEF PrepareEnd, Base, TypeOK, Installs, OfRound
<1>2. \A x \in Executors :
        \/ answer'[x] = answer[x] \/ answer'[x] = "fail"
        \/ answer'[x] = "ok" /\ step \notin {"refresh", "commit", "catchCommit"}
  BY <1>1 DEF Reply, Base, TypeOK
<1> QED
  BY <1>2, StillBelieved DEF PrepareEnd, cycleVars, pastVars

LEMMA PrepareFailsBelieved ==
  ASSUME Base, Believed, NEW e \in Executors, PrepareFails(e) PROVE Believed'
<1>1. \A x \in Executors : answer'[x] = answer[x] \/ answer'[x] = "fail"
  BY DEF PrepareFails, Reply, Base, TypeOK
<1> QED
  BY <1>1, StillBelieved DEF PrepareFails, cycleVars, diskVars, pastVars

LEMMA CommitAtBelieved ==
  ASSUME Base, Believed, NEW e \in Executors, NEW c \in calls, CommitAt(e, c) PROVE Believed'
<1>1. /\ c \in Calls /\ c.to = e /\ answer' = Reply(c, "ok") /\ astray' = Strayed(c)
      /\ link' = [link EXCEPT ![e] = c.version]
      /\ (c.live => /\ answer[e] = "wait" /\ e \in targets
                    /\ \/ step = "commit" /\ c.version = sourceVersion
                       \/ step = "catchCommit" /\ c.version = active)
      /\ UNCHANGED <<step, sourceVersion, active, record, reachable, targets, queue, told, touched>>
  BY DEF CommitAt, Takes, Base, TypeOK, Asked, OfRound, cycleVars, viewVars
<1>2. Reported'
  BY <1>1 DEF Believed, Reported, Reply, Strayed, Base, TypeOK
<1>3. Behind'
  BY <1>1 DEF Believed, Behind, Catching
<1>4. Noting'
  <2> SUFFICES ASSUME NEW x \in Plain' PROVE Noted(x)'
    BY DEF Noting
  <2>1. x \in Plain /\ Noted(x)
    BY <1>1 DEF Plain, Strayed, Believed, Noting
  <2>2. CASE x = e
    <3>1. c.live /\ link'[e] = c.version /\ answer'[e] = "ok"
      BY <1>1, <2>2 DEF Plain, Strayed, Reply, Base, TypeOK
    <3> QED
      BY <1>1, <2>1, <2>2, <3>1 DEF Noted, Believed, Behind
  <2>3. CASE x # e
    <3>1. link'[x] = link[x] /\ answer'[x] = answer[x]
      BY <1>1, <2>1, <2>3 DEF Reply, Base, TypeOK, Plain
    <3> QED
      BY <1>1, <2>1, <3>1 DEF Noted
  <2> QED
    BY <2>2, <2>3
<1> QED
  BY <1>2, <1>3, <1>4 DEF Believed

LEMMA CommitBreaksBelieved ==
  ASSUME Base, Believed, NEW e \in Executors, NEW c \in calls, CommitBreaks(e, c) PROVE Believed'
<1>1. /\ c \in Calls /\ c.to = e /\ answer' = Reply(c, "fail") /\ astray' = Strayed(c)
      /\ link' \in {link, [link EXCEPT ![e] = c.version]}
      /\ (c.live => /\ answer[e] = "wait" /\ e \in targets
                    /\ \/ step = "commit" /\ c.version = sourceVersion
                       \/ step = "catchCommit" /\ c.version = active)
      /\ UNCHANGED <<step, sourceVersion, active, record, reachable, targets, queue, told, touched>>
  BY DEF CommitBreaks, Takes, Base, TypeOK, Asked, OfRound, cycleVars, viewVars
<1>2. Reported'
  BY <1>1 DEF Believed, Reported, Reply, Strayed, Base, TypeOK
<1>3. Behind'
  BY <1>1 DEF Believed, Behind, Catching
<1>4. Noting'
  <2> SUFFICES ASSUME NEW x \in Plain' PROVE Noted(x)'
    BY DEF Noting
  <2>1. x \in Plain /\ Noted(x)
    BY <1>1 DEF Plain, Strayed, Believed, Noting
  <2>2. CASE x = e
    <3>1. c.live /\ answer'[e] = "fail"
      BY <1>1, <2>2 DEF Plain, Strayed, Reply, Base, TypeOK
    <3> QED
      BY <1>1, <2>1, <2>2, <3>1 DEF Noted, Believed, Behind
  <2>3. CASE x # e
    <3>1. link'[x] = link[x] /\ answer'[x] = answer[x]
      BY <1>1, <2>1, <2>3 DEF Reply, Base, TypeOK, Plain
    <3> QED
      BY <1>1, <2>1, <3>1 DEF Noted
  <2> QED
    BY <2>2, <2>3
<1> QED
  BY <1>2, <1>3, <1>4 DEF Believed

LEMMA RefusedBelieved ==
  ASSUME Base, Believed, NEW e \in Executors, Refused(e) PROVE Believed'
<1>1. \A x \in Executors : answer'[x] = answer[x] \/ answer'[x] = "fail"
  BY DEF Refused, Base, TypeOK
<1> QED
  BY <1>1, StillBelieved DEF Refused, cycleVars, diskVars, pastVars

LEMMA ResetBelieved ==
  ASSUME Base, Believed, NEW e \in Executors, Reset(e) PROVE Believed'
<1>1. \A x \in Executors : answer'[x] = answer[x] \/ answer'[x] = "fail"
  BY DEF Reset, Base, TypeOK
<1> QED
  BY <1>1, StillBelieved DEF Reset, cycleVars, diskVars, pastVars

LEMMA GiveUpBelieved ==
  ASSUME Base, Believed, NEW e \in Executors, GiveUp(e) PROVE Believed'
<1>1. \A x \in Executors : answer'[x] = answer[x] \/ answer'[x] = "fail"
  BY DEF GiveUp, Base, TypeOK
<1> QED
  BY <1>1, StillBelieved DEF GiveUp, cycleVars, diskVars, pastVars

LEMMA EditBelieved ==
  ASSUME Base, Believed, NEW e \in Executors, Edit(e) PROVE Believed'
BY StillBelieved DEF Edit, cycleVars, roundVars

LEMMA CrashBelieved ==
  ASSUME Base, Believed, NEW e \in Executors, Crash(e) PROVE Believed'
BY StillBelieved DEF Crash, cycleVars, roundVars, diskVars, pastVars

LEMMA CoordinatorRestartBelieved == ASSUME Base, Believed, CoordinatorRestart PROVE Believed'
<1>1. step' = "idle" /\ reachable' = {}
  BY DEF CoordinatorRestart
<1> QED
  BY <1>1 DEF Believed, Reported, Noting, Plain, Behind, Catching

-----------------------------------------------------------------------------
(***************************************************************************)
(* The theorems.                                                           *)
(***************************************************************************)

LEMMA InitIInv == ASSUME Init PROVE IInv
<1>1. Base
  BY InitBase
<1>2. Untouched
  BY DEF Init, Untouched, Intact, Fresh
<1>3. Checked
  BY DEF Init, Checked, FitAll, ProvenAll, Voted, Fit, Proven, Fresh
<1>4. Believed
  BY DEF Init, Believed, Reported, Noting, Plain, Behind, Catching
<1> QED
  BY <1>1, <1>2, <1>3, <1>4 DEF IInv

LEMMA CoordinatorStep == ASSUME IInv, Coordinator PROVE IInv'
<1> USE DEF IInv
<1>1. Untouched'
  BY CoordinatorFrame, SameIntact DEF storeVars
<1>2. FitAll'
  BY CoordinatorFrame, SameFit DEF storeVars, Checked
<1>3. Base' /\ ProvenAll' /\ Voted' /\ Believed'
  <2>1. CASE Observe
    BY <2>1, ObserveBase, ObserveChecked, ObserveBelieved
  <2>2. CASE Adopt
    BY <2>2, AdoptBase, AdoptChecked, AdoptBelieved
  <2>3. CASE Rest
    BY <2>3, RestBase, RestChecked, RestBelieved
  <2>4. CASE PutOff
    BY <2>4, PutOffBase, PutOffChecked, PutOffBelieved
  <2>5. CASE AlreadyThere
    BY <2>5, AlreadyThereBase, AlreadyThereChecked, AlreadyThereBelieved
  <2>6. CASE BeginPrepare
    BY <2>6, BeginPrepareBase, BeginPrepareChecked, BeginPrepareBelieved
  <2>7. CASE BeginAbort
    BY <2>7, BeginAbortBase, BeginAbortChecked, BeginAbortBelieved
  <2>8. CASE EndAbort
    BY <2>8, EndAbortBase, EndAbortChecked, EndAbortBelieved
  <2>9. CASE Drain
    BY <2>9, DrainBase, DrainChecked, DrainBelieved
  <2>10. CASE BeginCommit
    BY <2>10, BeginCommitBase, BeginCommitChecked, BeginCommitBelieved
  <2>11. CASE EndCommit
    BY <2>11, EndCommitBase, EndCommitChecked, EndCommitBelieved
  <2>12. CASE BeginCatchUp
    BY <2>12, BeginCatchUpBase, BeginCatchUpChecked, BeginCatchUpBelieved
  <2>13. CASE CatchCommit
    BY <2>13, CatchCommitBase, CatchCommitChecked, CatchCommitBelieved
  <2>14. CASE Caught
    BY <2>14, CaughtBase, CaughtChecked, CaughtBelieved
  <2>15. CASE EndCatchUp
    BY <2>15, EndCatchUpBase, EndCatchUpChecked, EndCatchUpBelieved
  <2>16. ASSUME NEW e \in Executors, Learn(e) PROVE Base' /\ ProvenAll' /\ Voted' /\ Believed'
    BY <2>16, LearnBase, LearnChecked, LearnBelieved
  <2>17. ASSUME NEW e \in Executors, CatchNext(e) PROVE Base' /\ ProvenAll' /\ Voted' /\ Believed'
    BY <2>17, CatchNextBase, CatchNextChecked, CatchNextBelieved
  <2> QED
    BY <2>1, <2>2, <2>3, <2>4, <2>5, <2>6, <2>7, <2>8, <2>9, <2>10, <2>11, <2>12, <2>13, <2>14,
       <2>15, <2>16, <2>17 DEF Coordinator
<1> QED
  BY <1>1, <1>2, <1>3 DEF Checked

LEMMA StoreStep == ASSUME IInv, NEW e \in Executors, Store(e) PROVE IInv'
<1> USE DEF IInv
<1>1. ASSUME NEW c \in calls, StatusAt(e, c) PROVE IInv'
  <2>1. Untouched'
    BY <1>1, SameIntact DEF StatusAt, storeVars, pastVars
  <2> QED
    BY <1>1, <2>1, StatusAtBase, StatusAtChecked, StatusAtBelieved
<1>2. ASSUME NEW c \in calls, PrepareReuse(e, c) PROVE IInv'
  BY <1>2, PrepareReuseBase, PrepareReuseIntact, PrepareReuseChecked, PrepareReuseBelieved
<1>3. ASSUME NEW c \in calls, PrepareBegin(e, c) PROVE IInv'
  BY <1>3, PrepareBeginBase, PrepareBeginIntact, PrepareBeginChecked, PrepareBeginBelieved
<1>4. ASSUME NEW c \in calls, CommitAt(e, c) PROVE IInv'
  BY <1>4, CommitAtBase, CommitAtIntact, CommitAtChecked, CommitAtBelieved
<1>5. ASSUME NEW c \in calls, CommitRefused(e, c) PROVE IInv'
  <2>1. Untouched'
    BY <1>5, SameIntact DEF CommitRefused, storeVars, pastVars
  <2> QED
    BY <1>5, <2>1, CommitRefusedBase, CommitRefusedChecked, CommitRefusedBelieved
<1>6. ASSUME NEW c \in calls, AbortAt(e, c) PROVE IInv'
  BY <1>6, AbortAtBase, AbortAtIntact, AbortAtChecked, AbortAtBelieved
<1>7. CASE PrepareEnd(e)
  BY <1>7, PrepareEndBase, PrepareEndIntact, PrepareEndChecked, PrepareEndBelieved
<1>8. CASE PrepareFails(e)
  <2>1. Untouched'
    BY <1>8, SameIntact DEF PrepareFails, storeVars, pastVars
  <2> QED
    BY <1>8, <2>1, PrepareFailsBase, PrepareFailsChecked, PrepareFailsBelieved
<1>9. CASE Refused(e)
  <2>1. Untouched'
    BY <1>9, SameIntact DEF Refused, storeVars, pastVars
  <2> QED
    BY <1>9, <2>1, RefusedBase, RefusedChecked, RefusedBelieved
<1>10. CASE Reset(e)
  <2>1. Untouched'
    BY <1>10, SameIntact DEF Reset, storeVars, pastVars
  <2> QED
    BY <1>10, <2>1, ResetBase, ResetChecked, ResetBelieved
<1>11. ASSUME NEW c \in calls, CommitBreaks(e, c) PROVE IInv'
  BY <1>11, CommitBreaksBase, CommitBreaksIntact, CommitBreaksChecked, CommitBreaksBelieved
<1> QED
  BY <1>1, <1>2, <1>3, <1>4, <1>5, <1>6, <1>7, <1>8, <1>9, <1>10, <1>11 DEF Store

LEMMA EnvironmentStep == ASSUME IInv, Environment PROVE IInv'
<1> USE DEF IInv
<1>1. CASE Change
  <2>1. Untouched'
    BY <1>1, SameIntact DEF Change, storeVars, pastVars
  <2>2. Checked'
    BY <1>1, StillChecked DEF Change, diskVars, storeVars, pastVars
  <2>3. Believed'
    BY <1>1, StillBelieved DEF Change, cycleVars, roundVars, diskVars, pastVars
  <2> QED
    BY <1>1, <2>1, <2>2, <2>3, ChangeBase
<1>2. CASE CoordinatorRestart
  <2>1. Untouched'
    BY <1>2, SameIntact DEF CoordinatorRestart, pastVars
  <2> QED
    BY <1>2, <2>1, CoordinatorRestartBase, CoordinatorRestartChecked, CoordinatorRestartBelieved
<1>3. ASSUME NEW e \in Executors, Edit(e) PROVE IInv'
  <2>1. Checked'
    BY <1>3, StillChecked DEF Edit, storeVars
  <2> QED
    BY <1>3, <2>1, EditBase, EditIntact, EditBelieved
<1>4. ASSUME NEW e \in Executors, GiveUp(e) PROVE IInv'
  <2>1. Untouched'
    BY <1>4, SameIntact DEF GiveUp, pastVars
  <2> QED
    BY <1>4, <2>1, GiveUpBase, GiveUpChecked, GiveUpBelieved
<1>5. ASSUME NEW e \in Executors, Crash(e) PROVE IInv'
  BY <1>5, CrashBase, CrashIntact, CrashChecked, CrashBelieved
<1>6. ASSUME NEW e \in Executors, Restart(e) PROVE IInv'
  <2>1. Untouched'
    BY <1>6, SameIntact DEF Restart, pastVars
  <2>2. Checked'
    BY <1>6, StillChecked DEF Restart, diskVars, pastVars
  <2>3. Believed'
    BY <1>6, StillBelieved DEF Restart, cycleVars, roundVars, diskVars, pastVars
  <2> QED
    BY <1>6, <2>1, <2>2, <2>3, RestartBase
<1> QED
  BY <1>1, <1>2, <1>3, <1>4, <1>5, <1>6 DEF Environment

LEMMA StutterStep == ASSUME IInv, UNCHANGED vars PROVE IInv'
<1> USE DEF IInv
<1>1. Base'
  BY StillBase DEF Base, TypeOK, vars, sourceVars, cycleVars, viewVars, delayVars, roundVars,
     diskVars,
     storeVars, pastVars
<1>2. Untouched'
  BY SameIntact DEF vars, storeVars, pastVars
<1>3. Checked'
  BY StillChecked DEF vars, diskVars, storeVars, pastVars
<1>4. Believed'
  BY StillBelieved DEF vars, cycleVars, roundVars, diskVars, pastVars
<1> QED
  BY <1>1, <1>2, <1>3, <1>4

\* The invariant, for every set of executors and versions.
THEOREM Invariance == Spec => []IInv
<1>1. Init => IInv
  BY InitIInv
<1>2. IInv /\ [Next]_vars => IInv'
  BY CoordinatorStep, StoreStep, EnvironmentStep, StutterStep DEF Next
<1> QED
  BY <1>1, <1>2, PTL DEF Spec

\* Every variable of the syncer and of the stores keeps its type, and an executor whose
\* answer is awaited has not answered yet (BundleSyncer, BundleStore).
THEOREM Types == Spec => []TypeOK
<1>1. IInv => TypeOK
  BY DEF IInv, Base
<1> QED
  BY <1>1, Invariance, PTL

\* On an executor that nobody edits by hand, the link and everything that may yet be
\* committed stay complete through aborts, prunes, crashes and late calls (BundleStore).
THEOREM LinksResolve == Spec => []LinkResolves
<1>1. IInv => LinkResolves
  BY DEF IInv, Untouched, Intact, LinkResolves
<1> QED
  BY <1>1, Invariance, PTL

\* No executor is switched to a version that another one has refused, unless that one did
\* not answer when the transition began (_transition, _catch_up).
THEOREM NothingHalfway == Spec => []AllOrNothing
<1>1. IInv => AllOrNothing
  <2> SUFFICES ASSUME IInv, NEW e \in Executors, NEW f \in Executors,
                      link[e] # First, <<f, link[e]>> \in Unfit
               PROVE  f \in skipped /\ f # e
    BY DEF AllOrNothing
  <2>1. Fit(e, link[e]) /\ Proven(link[e]) /\ link[e] \in Versions
    BY DEF IInv, Checked, FitAll, ProvenAll, Base, TypeOK
  <2> QED
    BY <2>1, VersionsAssumption DEF Fit, Proven
<1> QED
  BY <1>1, Invariance, PTL

\* What the coordinator notes of an executor that may be given tasks is what this one has
\* (eligible, _refresh, _transition, _catch_up).
THEOREM RecordsHonest == Spec => []EligibleHonest
<1>1. IInv => EligibleHonest
  <2> SUFFICES ASSUME IInv, NEW e \in Plain, step # "commit", active # None, record[e] = active
               PROVE  Tree(e) = active
    BY DEF EligibleHonest, Plain
  <2>1. e \in Executors \ touched /\ Noted(e) /\ step \in Steps
    BY DEF Plain, IInv, Base, TypeOK, Believed, Noting
  <2>2. Tree(e) = link[e]
    BY <2>1 DEF IInv, Untouched, Intact, Tree
  <2>3. link[e] = active
    BY <2>1 DEF Noted, Steps
  <2> QED
    BY <2>2, <2>3
<1> QED
  BY <1>1, Invariance, PTL

=============================================================================
