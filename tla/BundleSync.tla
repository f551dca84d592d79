----------------------------- MODULE BundleSync -----------------------------
(***************************************************************************)
(* File synchronisation: BundleSyncer on the source coordinator moves the  *)
(* executors to a new version of the watched files in two phases, and the  *)
(* BundleStore of each executor stages, switches and prunes releases.      *)
(*                                                                         *)
(* The syncer's cycle waits for all answers of a round.  A call that it    *)
(* gives up (a time-out, a broken connection, its own restart) may have    *)
(* been executed, may be executed later, or never.  A file tree is known   *)
(* by its version only: the hash of the files below the watched paths.     *)
(***************************************************************************)
EXTENDS Naturals, FiniteSets

CONSTANTS
  Executors,
  Versions,    \* versions that the source takes
  First,       \* the version everything starts with
  Broken,      \* versions with a syntax error
  Unfit,       \* <<e, v>>: the import check of v fails on executor e
  Other,       \* the version of a tree that the source never had
  None,
  Keep,        \* sync.keep_releases
  MaxChanges,  \* bound: changes of the source
  MaxFaults    \* bound: calls given up, crashes, failed installations, edits by hand

ASSUME VersionsAssumption ==
  /\ First \in Versions
  /\ Broken \subseteq Versions
  /\ Unfit \subseteq Executors \X Versions
  /\ Other \notin Versions /\ None \notin Versions /\ Other # None
ASSUME BoundsAssumption ==
  /\ Keep \in Nat \ {0}
  /\ MaxChanges \in Nat /\ MaxFaults \in Nat

VARIABLES
  source,        \* version of the files on the coordinator's disk
  step,          \* where run_once stands
  manifest,      \* version that the last scan found: manifest.version, _pending.version
  sourceVersion, \* self.source_version
  active,        \* self.active_version
  retrying,      \* self._retry_at may still lie ahead
  record,        \* version of each ExecutorSync
  reachable,     \* the executors with st.reachable
  waiting,       \* the executors whose next_try may still lie ahead
  targets,       \* the executors the current round of calls goes to
  queue,         \* the executors _catch_up has still to do
  answer,        \* answer of each executor in the current round
  told,          \* version in the answer to GET /sync/status
  calls,         \* requests that no executor has taken up yet
  up,            \* the executors whose process lives
  link,          \* release that .sync/current names
  releases,      \* complete directories below .sync/releases
  edited,        \* the releases whose files an operator has changed
  staged,        \* self._staged
  installing,    \* the prepare that holds the lock while it unpacks and verifies
  skipped,       \* history: executors that some transition left out as unreachable
  astray,        \* history: executors that executed a call nobody waited for any more
  touched,       \* history: executors whose files were edited
  changes, faults

sourceVars == <<source, changes>>
cycleVars  == <<manifest, sourceVersion>>
viewVars   == <<active, record, reachable>>
delayVars  == <<retrying, waiting>>
roundVars  == <<targets, queue, answer, told>>
diskVars   == <<link, releases, edited>>
storeVars  == <<up, staged, installing>>
pastVars   == <<skipped, astray, touched>>
vars == <<sourceVars, step, cycleVars, viewVars, delayVars, roundVars, calls, diskVars,
          storeVars, pastVars, faults>>

Steps == {"idle", "refresh", "decide", "prepare", "abort", "drain", "commit",
          "catch", "catchPrepare", "catchCommit"}
Rounds == {"refresh", "prepare", "abort", "commit", "catchPrepare", "catchCommit"}
Calls == [to : Executors, op : {"status", "prepare", "commit", "abort"},
          version : Versions \union {None}, live : BOOLEAN]
Seen  == Versions \union {Other, None}

Awaited(e) == {c \in calls : c.to = e /\ c.live}

TypeOK ==
  /\ source \in Versions
  /\ step \in Steps
  /\ manifest \in Versions \union {None} /\ sourceVersion \in Versions \union {None}
  /\ active \in Seen
  /\ retrying \in BOOLEAN
  /\ record \in [Executors -> Seen]
  /\ told \in [Executors -> Seen]
  /\ answer \in [Executors -> {"none", "wait", "ok", "fail", "seen"}]
  /\ reachable \subseteq Executors /\ waiting \subseteq Executors
  /\ targets \subseteq Executors /\ queue \subseteq Executors
  /\ calls \subseteq Calls
  /\ \A c \in calls : c.live => answer[c.to] = "wait"
  /\ up \subseteq Executors
  /\ link \in [Executors -> Versions]
  /\ releases \in [Executors -> SUBSET Versions]
  /\ edited \in [Executors -> SUBSET Versions]
  /\ staged \in [Executors -> SUBSET Versions]
  /\ installing \in [Executors -> Calls \union {None}]
  /\ skipped \subseteq Executors /\ astray \subseteq Executors /\ touched \subseteq Executors
  /\ changes \in 0..MaxChanges /\ faults \in 0..MaxFaults

Fresh(x) == [e \in Executors |-> x]

Init ==
  /\ source = First
  /\ step = "idle"
  /\ manifest = None /\ sourceVersion = None /\ active = None
  /\ retrying = FALSE
  /\ record = Fresh(None) /\ reachable = {} /\ waiting = {}
  /\ targets = {} /\ queue = {} /\ answer = Fresh("none") /\ told = Fresh(None)
  /\ calls = {}
  /\ up = Executors
  /\ link = Fresh(First) /\ releases = Fresh({First}) /\ edited = Fresh({})
  /\ staged = Fresh({}) /\ installing = Fresh(None)
  /\ skipped = {} /\ astray = {} /\ touched = {}
  /\ changes = 0 /\ faults = 0

\* What bundle.scan finds on an executor.
Tree(e) == IF link[e] \in releases[e] \ edited[e] THEN link[e] ELSE Other

(***************************************************************************)
(* The coordinator: one cycle of BundleSyncer, under its lock.             *)
(***************************************************************************)

\* A round of calls to S, answered in any order.
Ask(S, op, v) ==
  /\ targets' = S
  /\ answer' = [e \in Executors |-> IF e \in S THEN "wait" ELSE "none"]
  /\ calls' = calls \union {[to |-> e, op |-> op, version |-> v, live |-> TRUE] : e \in S}

\* The cycle is over, and with it what run_once kept for itself.
EndCycle ==
  /\ step' = "idle"
  /\ targets' = {}
  /\ answer' = Fresh("none")

Answered == \A e \in targets : answer[e] # "wait"
Agreeing == {e \in targets : answer[e] = "ok"}

\* The scan and _observe_source: a version is settled when it is seen a second time
\* (settle_s later), or at once when an operator forces it, unless it has errors.
Observe ==
  /\ step = "idle"
  /\ manifest' = source
  /\ \E force \in BOOLEAN :
       IF source \notin Broken /\ (force \/ manifest = source) /\ sourceVersion # source
       THEN sourceVersion' = source /\ retrying' = FALSE
       ELSE UNCHANGED <<sourceVersion, retrying>>
  /\ Ask(Executors, "status", None)
  /\ step' = "refresh"
  /\ UNCHANGED <<sourceVars, viewVars, waiting, queue, told, diskVars, storeVars, pastVars,
                 faults>>

\* The end of one _refresh: no answer leaves the version as it was.
Learn(e) ==
  /\ step = "refresh"
  /\ answer[e] \in {"ok", "fail"}
  /\ IF answer[e] = "ok"
     THEN /\ record' = [record EXCEPT ![e] = told[e]]
          /\ reachable' = reachable \union {e}
     ELSE /\ reachable' = reachable \ {e}
          /\ UNCHANGED record
  /\ answer' = [answer EXCEPT ![e] = "seen"]
  /\ told' = [told EXCEPT ![e] = None]
  /\ UNCHANGED <<sourceVars, step, cycleVars, active, delayVars, targets, queue, calls,
                 diskVars, storeVars, pastVars, faults>>

\* _adopt_initial_version, when all executors have been asked.
Adopt ==
  /\ step = "refresh"
  /\ \A e \in Executors : answer[e] = "seen"
  /\ LET found == {record[e] : e \in reachable}
     IN  IF active = None /\ Cardinality(found) = 1
         THEN active' \in found
         ELSE UNCHANGED active
  /\ step' = "decide"
  /\ UNCHANGED <<sourceVars, cycleVars, record, reachable, delayVars, roundVars, calls,
                 diskVars, storeVars, pastVars, faults>>

\* A transition is due; the executors it would move; those that lag behind it later.
Due     == sourceVersion # None /\ sourceVersion # active
Movable == {e \in reachable : record[e] # sourceVersion}
Lagging == {e \in reachable : record[e] # active}

\* The cycle ends without a call: not yet time to retry, the source is changing again,
\* or there is nothing to do.
Rest ==
  /\ step = "decide"
  /\ \/ Due /\ (retrying \/ manifest # sourceVersion)
     \/ ~Due /\ (active = None \/ manifest # active \/ Lagging \subseteq waiting)
  /\ EndCycle
  /\ UNCHANGED <<sourceVars, cycleVars, viewVars, delayVars, queue, told, calls, diskVars,
                 storeVars, pastVars, faults>>

\* No executor answers; or one of the manifest's files has changed or gone since the scan, so
\* that build_bundle raises.
PutOff ==
  /\ step = "decide"
  /\ Due
  /\ manifest = sourceVersion
  /\ reachable = {} \/ (Movable # {} /\ source # manifest)
  /\ retrying' = TRUE
  /\ EndCycle
  /\ UNCHANGED <<sourceVars, cycleVars, viewVars, waiting, queue, told, calls, diskVars,
                 storeVars, pastVars, faults>>

\* All executors that answer have the version already.
AlreadyThere ==
  /\ step = "decide"
  /\ Due
  /\ manifest = sourceVersion
  /\ reachable # {} /\ Movable = {}
  /\ active' = sourceVersion
  /\ EndCycle
  /\ UNCHANGED <<sourceVars, cycleVars, record, reachable, delayVars, queue, told, calls,
                 diskVars, storeVars, pastVars, faults>>

\* Phase one of _transition: every executor that answers unpacks and verifies.  The bundle has
\* the files of the manifest, also when others have been added since the scan.
BeginPrepare ==
  /\ step = "decide"
  /\ Due
  /\ manifest = sourceVersion
  /\ Movable # {}
  /\ Ask(Movable, "prepare", sourceVersion)
  /\ skipped' = skipped \union (Executors \ reachable)
  /\ step' = "prepare"
  /\ UNCHANGED <<sourceVars, cycleVars, viewVars, delayVars, queue, told, diskVars, storeVars,
                 astray, touched, faults>>

\* Mutant of AllAgree: one executor that has prepared is enough.
OneAgrees == Agreeing # {}
AllAgree  == Agreeing = targets

\* One prepare has failed: the others are told to drop theirs, and it is tried again later.
BeginAbort ==
  /\ step = "prepare"
  /\ Answered /\ ~AllAgree
  /\ Ask(Agreeing, "abort", sourceVersion)
  /\ retrying' = TRUE
  /\ step' = "abort"
  /\ UNCHANGED <<sourceVars, cycleVars, viewVars, waiting, queue, told, diskVars, storeVars,
                 pastVars, faults>>

EndAbort ==
  /\ step = "abort"
  /\ Answered
  /\ EndCycle
  /\ UNCHANGED <<sourceVars, cycleVars, viewVars, delayVars, queue, told, calls, diskVars,
                 storeVars, pastVars, faults>>

\* The gate of JobAdmission is closed, and the running jobs are waited for.
Drain ==
  /\ step = "prepare"
  /\ Answered /\ AllAgree
  /\ step' = "drain"
  /\ UNCHANGED <<sourceVars, cycleVars, viewVars, delayVars, roundVars, calls, diskVars,
                 storeVars, pastVars, faults>>

BeginCommit ==
  /\ step = "drain"
  /\ Ask(targets, "commit", sourceVersion)
  /\ step' = "commit"
  /\ UNCHANGED <<sourceVars, cycleVars, viewVars, delayVars, queue, told, diskVars, storeVars,
                 pastVars, faults>>

\* Mutant of Moved: an executor whose commit failed counts as moved.
MovedAll == [e \in Executors |-> IF e \in targets THEN sourceVersion ELSE record[e]]
Moved    == [e \in Executors |-> IF e \in Agreeing THEN sourceVersion ELSE record[e]]

\* The version is active for all, also when a commit has failed; the gate opens.
EndCommit ==
  /\ step = "commit"
  /\ Answered
  /\ record' = Moved
  /\ active' = sourceVersion
  /\ EndCycle
  /\ UNCHANGED <<sourceVars, cycleVars, reachable, delayVars, queue, told, calls, diskVars,
                 storeVars, pastVars, faults>>

\* _catch_up: those that lag behind, except some that have failed a moment ago.  They are put
\* off when build_bundle raises.
BeginCatchUp ==
  /\ step = "decide"
  /\ ~Due /\ active # None /\ manifest = active
  /\ \E S \in SUBSET Lagging :
       /\ Lagging \ waiting \subseteq S /\ S # {}
       /\ \/ queue' = S /\ step' = "catch" /\ UNCHANGED <<waiting, targets, answer>>
          \/ source # manifest /\ waiting' = waiting \union S /\ EndCycle /\ UNCHANGED queue
  /\ UNCHANGED <<sourceVars, cycleVars, viewVars, retrying, told, calls,
                 diskVars, storeVars, pastVars, faults>>

CatchNext(e) ==
  /\ step = "catch"
  /\ e \in queue
  /\ queue' = queue \ {e}
  /\ Ask({e}, "prepare", active)
  /\ step' = "catchPrepare"
  /\ UNCHANGED <<sourceVars, cycleVars, viewVars, delayVars, told, diskVars, storeVars,
                 pastVars, faults>>

CatchCommit ==
  /\ step = "catchPrepare"
  /\ Answered /\ AllAgree
  /\ Ask(targets, "commit", active)
  /\ step' = "catchCommit"
  /\ UNCHANGED <<sourceVars, cycleVars, viewVars, delayVars, queue, told, diskVars, storeVars,
                 pastVars, faults>>

\* The executor is at the active version, or has failed and is tried again later.
Caught ==
  /\ \/ step = "catchPrepare" /\ Answered /\ ~AllAgree
     \/ step = "catchCommit" /\ Answered
  /\ IF AllAgree
     THEN /\ record' = [e \in Executors |-> IF e \in targets THEN active ELSE record[e]]
          /\ waiting' = waiting \ targets
     ELSE waiting' = waiting \union targets /\ UNCHANGED record
  /\ step' = "catch"
  /\ UNCHANGED <<sourceVars, cycleVars, active, reachable, retrying, roundVars, calls,
                 diskVars, storeVars, pastVars, faults>>

EndCatchUp ==
  /\ step = "catch"
  /\ queue = {}
  /\ EndCycle
  /\ UNCHANGED <<sourceVars, cycleVars, viewVars, delayVars, queue, told, calls, diskVars,
                 storeVars, pastVars, faults>>

(***************************************************************************)
(* An executor: BundleStore, whose prepare, commit and abort take one lock *)
(* and run in a thread until their end, whether or not the client waits.   *)
(***************************************************************************)
Reply(c, a) == IF c.live THEN [answer EXCEPT ![c.to] = a] ELSE answer
Strayed(c)  == IF c.live THEN astray ELSE astray \union {c.to}

Takes(e, c, op) == c.to = e /\ c.op = op /\ e \in up
Free(e)         == installing[e] = None

\* status() scans the tree.
StatusAt(e, c) ==
  /\ Takes(e, c, "status")
  /\ calls' = calls \ {c}
  /\ answer' = Reply(c, "ok")
  /\ told' = [told EXCEPT ![e] = Tree(e)]
  /\ UNCHANGED <<sourceVars, step, cycleVars, viewVars, delayVars, targets, queue, diskVars,
                 storeVars, pastVars, faults>>

\* Mutant of Reusable: a release directory is taken as it stands.
IntactByName(e, v) == v \in releases[e]
Reusable(e, v) == v \in releases[e] \ edited[e]

\* prepare() of a release that is there, with the content its name stands for.
PrepareReuse(e, c) ==
  /\ Takes(e, c, "prepare")
  /\ Free(e)
  /\ Reusable(e, c.version)
  /\ staged' = [staged EXCEPT ![e] = @ \union {c.version}]
  /\ calls' = calls \ {c}
  /\ answer' = Reply(c, "ok")
  /\ UNCHANGED <<sourceVars, step, cycleVars, viewVars, delayVars, targets, queue, told,
                 diskVars, up, installing, pastVars, faults>>

\* prepare() removes a directory with another content, and starts to unpack.
PrepareBegin(e, c) ==
  /\ Takes(e, c, "prepare")
  /\ Free(e)
  /\ ~Reusable(e, c.version)
  /\ releases' = [releases EXCEPT ![e] = @ \ {c.version}]
  /\ edited' = [edited EXCEPT ![e] = @ \ {c.version}]
  /\ installing' = [installing EXCEPT ![e] = c]
  /\ calls' = calls \ {c}
  /\ UNCHANGED <<sourceVars, step, cycleVars, viewVars, delayVars, roundVars, link, up, staged,
                 pastVars, faults>>

\* Unpacked, verified and renamed to its place.
PrepareEnd(e) ==
  LET c == installing[e] IN
  /\ c # None
  /\ <<e, c.version>> \notin Unfit
  /\ releases' = [releases EXCEPT ![e] = @ \union {c.version}]
  /\ staged' = [staged EXCEPT ![e] = @ \union {c.version}]
  /\ installing' = [installing EXCEPT ![e] = None]
  /\ answer' = Reply(c, "ok")
  /\ UNCHANGED <<sourceVars, step, cycleVars, viewVars, delayVars, targets, queue, told, calls,
                 link, edited, up, pastVars, faults>>

\* The import check fails, or something else does (a full disk, its time-out).
PrepareFails(e) ==
  LET c == installing[e] IN
  /\ c # None
  /\ \/ <<e, c.version>> \in Unfit /\ UNCHANGED faults
     \/ faults < MaxFaults /\ faults' = faults + 1
  /\ installing' = [installing EXCEPT ![e] = None]
  /\ answer' = Reply(c, "fail")
  /\ UNCHANGED <<sourceVars, step, cycleVars, viewVars, delayVars, targets, queue, told, calls,
                 diskVars, up, staged, pastVars>>

\* Mutant of Spare: what is staged is not spared.
SpareAll(e, v) == releases[e] \ {v}
\* The releases that _prune counts: neither current nor staged.
Spare(e, v) == releases[e] \ ({v} \union staged[e])

\* commit(): the link is replaced, and of the other releases Keep - 1 stay.
CommitAt(e, c) ==
  /\ Takes(e, c, "commit")
  /\ Free(e)
  /\ c.version \in staged[e]
  /\ staged' = [staged EXCEPT ![e] = @ \ {c.version}]
  /\ link' = [link EXCEPT ![e] = c.version]
  /\ \E gone \in SUBSET Spare(e, c.version) :
       /\ Cardinality(Spare(e, c.version) \ gone) <= Keep - 1
       /\ gone # {} => Cardinality(Spare(e, c.version) \ gone) = Keep - 1
       /\ releases' = [releases EXCEPT ![e] = @ \ gone]
       /\ edited' = [edited EXCEPT ![e] = @ \ gone]
  /\ calls' = calls \ {c}
  /\ answer' = Reply(c, "ok")
  /\ astray' = Strayed(c)
  /\ UNCHANGED <<sourceVars, step, cycleVars, viewVars, delayVars, targets, queue, told, up,
                 installing, skipped, touched, faults>>

\* commit() raises on its way, before or after it has replaced the link: the version is not
\* staged any more, and nothing is pruned.
CommitBreaks(e, c) ==
  /\ Takes(e, c, "commit")
  /\ Free(e)
  /\ c.version \in staged[e]
  /\ faults < MaxFaults
  /\ faults' = faults + 1
  /\ staged' = [staged EXCEPT ![e] = @ \ {c.version}]
  /\ link' \in {link, [link EXCEPT ![e] = c.version]}
  /\ calls' = calls \ {c}
  /\ answer' = Reply(c, "fail")
  /\ astray' = Strayed(c)
  /\ UNCHANGED <<sourceVars, step, cycleVars, viewVars, delayVars, targets, queue, told, up,
                 installing, releases, edited, skipped, touched>>

\* commit() of a version that is not staged (any more): BundleError, 422.
CommitRefused(e, c) ==
  /\ Takes(e, c, "commit")
  /\ Free(e)
  /\ c.version \notin staged[e]
  /\ calls' = calls \ {c}
  /\ answer' = Reply(c, "fail")
  /\ UNCHANGED <<sourceVars, step, cycleVars, viewVars, delayVars, targets, queue, told,
                 diskVars, storeVars, pastVars, faults>>

\* What abort() deletes: the staged release, unless the link names it.
Dropped(e, v) == IF v \in staged[e] /\ v # link[e] THEN {v} ELSE {}

AbortAt(e, c) ==
  /\ Takes(e, c, "abort")
  /\ Free(e)
  /\ releases' = [releases EXCEPT ![e] = @ \ Dropped(e, c.version)]
  /\ edited' = [edited EXCEPT ![e] = @ \ Dropped(e, c.version)]
  /\ staged' = [staged EXCEPT ![e] = @ \ {c.version}]
  /\ calls' = calls \ {c}
  /\ answer' = Reply(c, "ok")
  /\ UNCHANGED <<sourceVars, step, cycleVars, viewVars, delayVars, targets, queue, told, link,
                 up, installing, pastVars, faults>>

(***************************************************************************)
(* The surroundings.                                                       *)
(***************************************************************************)

\* A deployment, or a revert, of the watched files.
Change ==
  /\ changes < MaxChanges
  /\ \E v \in Versions \ {source} : source' = v
  /\ changes' = changes + 1
  /\ UNCHANGED <<step, cycleVars, viewVars, delayVars, roundVars, calls, diskVars, storeVars,
                 pastVars, faults>>

\* An operator edits the files below the link on an executor.
Edit(e) ==
  /\ faults < MaxFaults
  /\ faults' = faults + 1
  /\ link[e] \in releases[e]
  /\ edited' = [edited EXCEPT ![e] = @ \union {link[e]}]
  /\ touched' = touched \union {e}
  /\ UNCHANGED <<sourceVars, step, cycleVars, viewVars, delayVars, roundVars, calls, link,
                 releases, storeVars, skipped, astray>>

\* Mutant of Abandoned: the call still counts as awaited.
AbandonedOpen(C) == C
Abandoned(C) == {[c EXCEPT !.live = FALSE] : c \in C}

\* The same for the prepare that is being executed.
Unattended(e) == IF installing[e] = None THEN None ELSE [installing[e] EXCEPT !.live = FALSE]

\* The coordinator gives a call up: its request is lost, or is executed without anyone
\* waiting, or has been executed and the answer is lost.
GiveUp(e) ==
  /\ step \in Rounds
  /\ answer[e] \in {"wait", "ok"}
  /\ faults < MaxFaults
  /\ faults' = faults + 1
  /\ \E lost \in BOOLEAN :
       calls' = (calls \ Awaited(e)) \union (IF lost THEN {} ELSE Abandoned(Awaited(e)))
  /\ installing' = [installing EXCEPT ![e] = Unattended(e)]
  /\ answer' = [answer EXCEPT ![e] = "fail"]
  /\ UNCHANGED <<sourceVars, step, cycleVars, viewVars, delayVars, targets, queue, told,
                 diskVars, up, staged, pastVars>>

\* An executor's process ends: what is staged is forgotten, the directories stay.
Crash(e) ==
  /\ e \in up
  /\ faults < MaxFaults
  /\ faults' = faults + 1
  /\ up' = up \ {e}
  /\ staged' = [staged EXCEPT ![e] = {}]
  /\ installing' = [installing EXCEPT ![e] = None]
  /\ UNCHANGED <<sourceVars, step, cycleVars, viewVars, delayVars, roundVars, calls, diskVars,
                 pastVars>>

\* Nobody answers at the address of an executor that is down.
Refused(e) ==
  /\ e \notin up
  /\ answer[e] = "wait"
  /\ calls' = calls \ Awaited(e)
  /\ answer' = [answer EXCEPT ![e] = "fail"]
  /\ UNCHANGED <<sourceVars, step, cycleVars, viewVars, delayVars, targets, queue, told,
                 diskVars, storeVars, pastVars, faults>>

Serving(e) == installing[e] # None /\ installing[e].live

\* The connection of a call that the crash interrupted is reset.
Reset(e) ==
  /\ answer[e] = "wait"
  /\ Awaited(e) = {}
  /\ ~Serving(e)
  /\ answer' = [answer EXCEPT ![e] = "fail"]
  /\ UNCHANGED <<sourceVars, step, cycleVars, viewVars, delayVars, targets, queue, told, calls,
                 diskVars, storeVars, pastVars, faults>>

Restart(e) ==
  /\ e \notin up
  /\ up' = up \union {e}
  /\ UNCHANGED <<sourceVars, step, cycleVars, viewVars, delayVars, roundVars, calls, diskVars,
                 staged, installing, pastVars, faults>>

\* The coordinator stops and starts again: all that BundleSyncer knows is gone.
CoordinatorRestart ==
  /\ faults < MaxFaults
  /\ faults' = faults + 1
  /\ step' = "idle"
  /\ manifest' = None /\ sourceVersion' = None /\ active' = None
  /\ retrying' = FALSE
  /\ record' = Fresh(None) /\ reachable' = {} /\ waiting' = {}
  /\ targets' = {} /\ queue' = {} /\ answer' = Fresh("none") /\ told' = Fresh(None)
  /\ calls' = Abandoned(calls)
  /\ installing' = [e \in Executors |-> Unattended(e)]
  /\ UNCHANGED <<sourceVars, diskVars, up, staged, pastVars>>

-----------------------------------------------------------------------------

Coordinator ==
  \/ Observe \/ Adopt \/ Rest \/ PutOff \/ AlreadyThere
  \/ BeginPrepare \/ BeginAbort \/ EndAbort \/ Drain \/ BeginCommit \/ EndCommit
  \/ BeginCatchUp \/ CatchCommit \/ Caught \/ EndCatchUp
  \/ \E e \in Executors : Learn(e) \/ CatchNext(e)

Store(e) ==
  \/ \E c \in calls :
       \/ StatusAt(e, c) \/ PrepareReuse(e, c) \/ PrepareBegin(e, c)
       \/ CommitAt(e, c) \/ CommitBreaks(e, c) \/ CommitRefused(e, c) \/ AbortAt(e, c)
  \/ PrepareEnd(e) \/ PrepareFails(e)
  \/ Refused(e) \/ Reset(e)

Environment ==
  \/ Change \/ CoordinatorRestart
  \/ \E e \in Executors : Edit(e) \/ GiveUp(e) \/ Crash(e) \/ Restart(e)

Next == Coordinator \/ (\E e \in Executors : Store(e)) \/ Environment

(***************************************************************************)
(* The cycle is repeated for ever, an executor's threads go on, it is      *)
(* restarted when it has gone down, and a retry that is put off falls due. *)
(***************************************************************************)
Fairness ==
  /\ WF_vars(Coordinator)
  /\ SF_vars(BeginPrepare) /\ SF_vars(AlreadyThere) /\ SF_vars(BeginCatchUp)
  /\ \A e \in Executors : WF_vars(Store(e)) /\ WF_vars(Restart(e))

Spec == Init /\ [][Next]_vars /\ Fairness

-----------------------------------------------------------------------------

\* eligible(): tasks may be sent to e.
Eligible(e) == active = None \/ record[e] = active

\* On an executor whose files nobody edits, the link always names a complete release, and
\* so will it after a commit of anything staged: no abort, prune or late call takes a
\* release away that is in use or about to be (abort, _prune, prepare).
LinkResolves ==
  \A e \in Executors \ touched : {link[e]} \union staged[e] \subseteq releases[e]

\* A version that some executor cannot run is switched to on no executor, unless that one
\* did not answer when the transition began (prepare on all, then commit; catching up).
AllOrNothing ==
  \A e, f \in Executors :
    link[e] # First /\ <<f, link[e]>> \in Unfit => f \in skipped /\ f # e

\* Outside the commit phase, an executor that answered in this cycle and may be given
\* tasks has the active version: neither a failed commit, a lost answer, a crash nor a
\* revert leaves a false record (_transition, _catch_up, _refresh, eligible).
EligibleHonest ==
  \A e \in (reachable \ astray) \ touched :
    step # "commit" /\ active # None /\ record[e] = active => Tree(e) = active

\* When the source stays as it is and every executor can run it, all of them come to it in
\* the end, whatever failed before, and all of them are given tasks again.
Converges ==
  <>[](source \notin Broken /\ (\A e \in Executors : <<e, source>> \notin Unfit)
         => /\ active = source
            /\ \A e \in Executors : Tree(e) = source /\ Eligible(e))

=============================================================================
