----------------------------- MODULE Dashboard -----------------------------
(***************************************************************************)
(* The dashboard page in a browser: the shared script of both services and *)
(* the loaders of the pages that have state of their own.                  *)
(*                                                                         *)
(* Every loader awaits its answers, and nothing orders the answers of two  *)
(* loads: clicks and the timer start new ones while old ones are under     *)
(* way.  What a page shows is known here by where it comes from: the       *)
(* offset, the filter and the total of the answer it was drawn from.       *)
(***************************************************************************)
EXTENDS Integers, Sequences

CONSTANTS
  Filters,     \* what the filter bar can hold
  Unfiltered,  \* the empty filter bar
  InitialRows, \* history rows that match each filter, at first
  HIST_LIMIT,  \* rows of a page of the history
  Queries,     \* statements for the data source console
  OpsLinks,    \* the paths of API_OPS_LINKS
  DocLinks,    \* the paths of API_DOC_LINKS
  Prometheus,  \* the path of the Prometheus exporter
  Phases,      \* what the timeline is told of a phase, see PhasesAssumption
  None,
  MaxCalls,    \* bound: loads of the history that are under way
  MaxClicks,   \* bound: clicks and other inputs of the user
  MaxFaults    \* bound: requests that fail, rows that come or go on the server

ASSUME PageAssumption ==
  /\ Unfiltered \in Filters
  /\ InitialRows \in [Filters -> Nat]
  /\ HIST_LIMIT \in Nat \ {0}
  /\ Prometheus \in OpsLinks
  /\ "running" \notin Queries
\* A phase has a recorded duration, in ms, or one that is read off the browser's clock twice:
\* for the scale, and for its bar.  A clock that differs makes durations negative.
ASSUME PhasesAssumption ==
  /\ None \notin Int
  /\ \A p \in Phases :
       /\ p.recorded \in BOOLEAN /\ p.forScale \in Int /\ p.forBar \in Int
       /\ p.forScale <= p.forBar
       /\ p.recorded => p.forScale = p.forBar
ASSUME BoundsAssumption ==
  {MaxCalls, MaxClicks, MaxFaults} \subseteq Nat

VARIABLES
  rows,       \* the server: how many history rows match each filter
  served,     \* the server: the paths in /openapi.json
  active,     \* the tab
  histOffset, histTotal,
  filter, bar,\* what the filter bar holds, and whether it is shown
  histCalls,  \* the loadHist calls under way, each in a slot of its own
  histBody,   \* what #hist-body shows, and of which answer
  openapi,    \* _openapi
  specCalls,  \* who waits for /openapi.json: the header, the tab
  drawing,    \* the schemas that the tab is about to be drawn with
  header,     \* the links in the header
  links,      \* the shortcuts of the API tab
  label,      \* the text of a copy button of that tab
  timers,     \* the labels that its timers will restore, the oldest first
  dsOut,      \* what #ds-out shows
  dsCalls,    \* the queries of the console that are under way
  timeline,   \* the rows of the timeline modal; None when it is closed
  clicks, faults

serverVars == <<rows, served>>
histVars   == <<histOffset, histTotal, filter, bar, histCalls, histBody>>
tabVars    == <<links, label, timers>>
apiVars    == <<openapi, specCalls, drawing, header, tabVars>>
dsVars     == <<dsOut, dsCalls>>
counts     == <<clicks, faults>>
vars == <<serverVars, active, histVars, apiVars, dsVars, timeline, counts>>

Tabs   == {"jobs", "hist", "ds", "api"}
Labels == {"copy", "copied"}
Pagers == [from : Nat, to : Nat, total : Nat, prev : BOOLEAN, next : BOOLEAN]
Slots == 1..MaxCalls
HistCalls == [offset : Nat, filter : Filters, at : {"sent", "answered", "drawn"},
              n : 0..HIST_LIMIT, total : Nat, pager : Pagers \union {None}]
Bodies == [offset : Nat, filter : Filters, n : 0..HIST_LIMIT, total : Nat, pager : Pagers]

\* The duration and the bar of a phase; one that is still running is not shown as negative.
TimelineRows ==
  [recorded : {TRUE}, ms : Int, width : Nat]
    \union [recorded : {FALSE}, ms : Nat \union {None}, width : Nat]

At(k, at) == histCalls[k] # None /\ histCalls[k].at = at

TypeOK ==
  /\ rows \in [Filters -> Nat]
  /\ served \subseteq OpsLinks
  /\ active \in Tabs
  /\ histOffset \in {i * HIST_LIMIT : i \in 0..clicks} /\ histTotal \in Nat
  /\ filter \in Filters /\ bar \in BOOLEAN
  /\ histCalls \in [Slots -> HistCalls \union {None}]
  /\ \A k \in Slots : At(k, "drawn") => histCalls[k].pager \in Pagers
  /\ histBody \in Bodies \union {None}
  /\ openapi \in (SUBSET OpsLinks) \union {None}
  /\ specCalls \subseteq {"header", "tab"}
  /\ drawing \subseteq SUBSET OpsLinks
  /\ header \in (SUBSET (DocLinks \union OpsLinks)) \union {None}
  /\ links \in (SUBSET (DocLinks \union OpsLinks)) \union {None}
  /\ label \in Labels /\ timers \in Seq(Labels)
  /\ dsOut \in {"empty", "running", "failed"} \union Queries
  /\ dsCalls \subseteq Queries
  /\ timeline \in Seq(TimelineRows) \union {None}
  /\ clicks \in 0..MaxClicks /\ faults \in 0..MaxFaults

\* initHeaderLinks asks for the schema, and the first tab is drawn.
Init ==
  /\ rows = InitialRows
  /\ served \in {OpsLinks, OpsLinks \ {Prometheus}}
  /\ active = "jobs"
  /\ histOffset = 0 /\ histTotal = 0 /\ filter = Unfiltered /\ bar = FALSE
  /\ histCalls = [k \in Slots |-> None] /\ histBody = None
  /\ openapi = None /\ specCalls = {"header"} /\ drawing = {}
  /\ header = None /\ links = None
  /\ label = "copy" /\ timers = << >>
  /\ dsOut = "empty" /\ dsCalls = {}
  /\ timeline = None
  /\ clicks = 0 /\ faults = 0

\* An input of the user, who sees the page itself and not a modal over it.
Click ==
  /\ timeline = None
  /\ clicks < MaxClicks
  /\ clicks' = clicks + 1
  /\ UNCHANGED faults

-----------------------------------------------------------------------------
(***************************************************************************)
(* The history tab.                                                        *)
(***************************************************************************)

\* loadHist begins: the offset and the filter bar are read when the request is sent.
LoadHist(o, f) ==
  LET free == {k \in Slots : histCalls[k] = None}
  IN  /\ free # {}
      /\ histCalls' = [histCalls EXCEPT ![CHOOSE k \in free : TRUE] =
           [offset |-> o, filter |-> f, at |-> "sent", n |-> 0, total |-> 0, pager |-> None]]

\* The rows of one page.
PageRows(o, f) ==
  IF rows[f] <= o THEN 0 ELSE IF rows[f] - o < HIST_LIMIT THEN rows[f] - o ELSE HIST_LIMIT

HistServed(k) ==
  /\ At(k, "sent")
  /\ LET c == histCalls[k]
     IN  histCalls' = [histCalls EXCEPT ![k].at = "answered", ![k].total = rows[c.filter],
                                        ![k].n = PageRows(c.offset, c.filter)]
  /\ UNCHANGED <<serverVars, active, histOffset, histTotal, filter, bar, histBody, apiVars, dsVars,
                 timeline, counts>>

\* pagerHtml: the rows come from the answer, the offset from the page.
PagerHtml(n, total) ==
  [from |-> IF total > 0 THEN histOffset + 1 ELSE 0,
   to |-> histOffset + n, total |-> total,
   prev |-> histOffset > 0, next |-> histOffset + n < total]

\* The answer is there: the table and the pager are drawn, but not shown before another
\* answer has come (queryRunHistHtml; the executor's page goes on at once).
HistDrawn(k) ==
  /\ At(k, "answered")
  /\ LET c == histCalls[k]
     IN  /\ histTotal' = c.total
         /\ histCalls' = [histCalls EXCEPT ![k] =
                            [c EXCEPT !.at = "drawn", !.pager = PagerHtml(c.n, c.total)]]
  /\ bar' = TRUE
  /\ UNCHANGED <<serverVars, active, histOffset, filter, histBody, apiVars, dsVars, timeline,
                 counts>>

\* Mutant of Drawn: the pager is drawn after the await.
DrawnLate(c) == PagerHtml(c.n, histTotal)
\* The operands of + are evaluated from the left, up to the await.
Drawn(c) == c.pager

HistShown(k) ==
  /\ At(k, "drawn")
  /\ LET c == histCalls[k]
     IN  histBody' = [offset |-> c.offset, filter |-> c.filter, n |-> c.n, total |-> c.total,
                      pager |-> Drawn(c)]
  /\ histCalls' = [histCalls EXCEPT ![k] = None]
  /\ UNCHANGED <<serverVars, active, histOffset, histTotal, filter, bar, apiVars, dsVars, timeline,
                 counts>>

\* getJSON raises an error, and the page stays as it was; or it takes the body of an error for
\* an answer, and a sentence takes the place of the table and hides the filter bar.
HistFails(k) ==
  /\ At(k, "sent")
  /\ faults < MaxFaults
  /\ faults' = faults + 1
  /\ histCalls' = [histCalls EXCEPT ![k] = None]
  /\ UNCHANGED <<histBody, bar>> \/ (histBody' = None /\ bar' = FALSE)
  /\ UNCHANGED <<serverVars, active, histOffset, histTotal, filter, apiVars, dsVars, timeline,
                 clicks>>

\* The offset changes, and the page is loaded for it.
Turn(o, f) ==
  /\ Click
  /\ active = "hist"
  /\ histOffset' = o
  /\ filter' = f
  /\ LoadHist(o, f)
  /\ UNCHANGED <<serverVars, active, histTotal, bar, histBody, apiVars, dsVars, timeline>>

\* The buttons are those of the pager that is shown, which may be an older one.
HistPrev ==
  /\ histBody # None /\ histBody.pager.prev
  /\ Turn(IF histOffset > HIST_LIMIT THEN histOffset - HIST_LIMIT ELSE 0, filter)

HistNext ==
  /\ histBody # None /\ histBody.pager.next
  /\ histOffset + HIST_LIMIT < histTotal
  /\ Turn(histOffset + HIST_LIMIT, filter)

\* The search button or a choice in the status list.
HistSearch == bar /\ \E f \in Filters : Turn(0, f)
HistReset  == bar /\ Turn(0, Unfiltered)

\* Text is typed into the filter bar: the next load uses it, whoever starts that.
HistType ==
  /\ Click
  /\ active = "hist" /\ bar
  /\ filter' \in Filters \ {filter}
  /\ UNCHANGED <<serverVars, active, histOffset, histTotal, bar, histCalls, histBody, apiVars,
                 dsVars, timeline>>

-----------------------------------------------------------------------------
(***************************************************************************)
(* The API tab, the header, and the copy buttons.                          *)
(***************************************************************************)

\* apiQuickLinks: the documents, and what the schema has.
QuickLinks(spec) == DocLinks \union (OpsLinks \intersect spec)

\* loadOpenapi: the schema is asked for once, unless the first answer is still to come.
LoadApi ==
  IF openapi # None
  THEN drawing' = drawing \union {openapi} /\ UNCHANGED specCalls
  ELSE specCalls' = specCalls \union {"tab"} /\ UNCHANGED drawing

\* Mutant of Redraws: the tab is drawn once, like that of the data sources.
DrawsOnce == links = None
\* loadApi draws the tab again on every refresh.
Redraws == TRUE

\* The coordinator's page draws when /cluster has been answered, or has failed; the executor's
\* goes on at once.  New buttons have their label, and the old ones' timers reach nobody.
\* (The coordinator's table of links to the executors themselves is left out.)
ApiDrawn(spec) ==
  /\ spec \in drawing
  /\ drawing' = drawing \ {spec}
  /\ IF Redraws
     THEN links' = QuickLinks(spec) /\ label' = "copy" /\ timers' = << >>
     ELSE UNCHANGED tabVars
  /\ UNCHANGED <<serverVars, active, histVars, openapi, specCalls, header, dsVars, timeline, counts>>

\* A schema is kept as _openapi, and used by the one who asked for it.
Uses(who, spec) ==
  /\ openapi' = spec
  /\ drawing' = IF who = "tab" THEN drawing \union {spec} ELSE drawing
  /\ header' = IF who = "tab" THEN header ELSE DocLinks \union ({Prometheus} \intersect spec)

SpecArrives(who) ==
  /\ who \in specCalls
  /\ specCalls' = specCalls \ {who}
  /\ Uses(who, served)
  /\ UNCHANGED <<serverVars, active, histVars, tabVars, dsVars, timeline, counts>>

\* getJSON raises an error: the header does without the Prometheus link, for good, and the tab
\* asks again.  Or it takes the body of an error for the schema, which is kept, without a path.
SpecFails(who) ==
  /\ who \in specCalls
  /\ faults < MaxFaults
  /\ faults' = faults + 1
  /\ specCalls' = specCalls \ {who}
  /\ \/ /\ header' = IF who = "header" THEN DocLinks ELSE header
        /\ UNCHANGED <<openapi, drawing>>
     \/ Uses(who, {})
  /\ UNCHANGED <<serverVars, active, histVars, tabVars, dsVars, timeline, clicks>>

\* copyText: the label that is restored later is the one the button has now.
CopyText ==
  /\ Click
  /\ active = "api" /\ links # None
  /\ timers' = Append(timers, label)
  /\ label' = "copied"
  /\ UNCHANGED <<serverVars, active, histVars, openapi, specCalls, drawing, header, links, dsVars,
                 timeline>>

TimerFires ==
  /\ timers # << >>
  /\ label' = Head(timers)
  /\ timers' = Tail(timers)
  /\ UNCHANGED <<serverVars, active, histVars, openapi, specCalls, drawing, header, links, dsVars,
                 timeline, counts>>

-----------------------------------------------------------------------------
(***************************************************************************)
(* The data source console and the timeline modal.                         *)
(***************************************************************************)

RunDatasourceQuery(q) ==
  /\ Click
  /\ active = "ds"
  /\ q \notin dsCalls
  /\ dsOut' = "running"
  /\ dsCalls' = dsCalls \union {q}
  /\ UNCHANGED <<serverVars, active, histVars, apiVars, timeline>>

DsAnswered(q) ==
  /\ q \in dsCalls
  /\ dsOut' = q
  /\ dsCalls' = dsCalls \ {q}
  /\ UNCHANGED <<serverVars, active, histVars, apiVars, timeline, counts>>

\* What the console shows of a query that the server refused.
Caught == "failed"

\* postJSON raises what the server says, and the console shows it.
DsFails(q) ==
  /\ q \in dsCalls
  /\ faults < MaxFaults
  /\ faults' = faults + 1
  /\ dsOut' = Caught
  /\ dsCalls' = dsCalls \ {q}
  /\ UNCHANGED <<serverVars, active, histVars, apiVars, timeline, clicks>>

\* Mutant of PhaseMs: the difference of the two clocks is taken as it is.
Skewed(recorded, d) == d
\* phaseMs: a recorded duration is taken as it is; a running phase lasts until now by the
\* browser's clock, which may be behind.
PhaseMs(recorded, d) == IF ~recorded /\ d < 0 THEN None ELSE d

\* Mutant of Scale: the first phase sets the scale.
FirstSets(ms) == IF ms[1] = None \/ ms[1] = 0 THEN 1 ELSE ms[1]
\* The duration that gets a full bar: the longest, and at least 1.
Scale(ms) ==
  LET D == {ms[i] : i \in {k \in DOMAIN ms : ms[k] # None}} \union {1}
  IN  CHOOSE d \in D : \A x \in D : x <= d

\* renderPhases: the bar's percentage, rounded half up, and at least 2.
Width(ms, max) ==
  IF ms = None THEN 0
  ELSE LET pct == (200 * ms + max) \div (2 * max) IN IF pct < 2 THEN 2 ELSE pct

\* The clock is read for the scale first, and again for each bar: the bar of a phase that is
\* still running may be longer than its track.
RenderPhases(p) ==
  LET scale == Scale([i \in DOMAIN p |-> PhaseMs(p[i].recorded, p[i].forScale)])
      ms    == [i \in DOMAIN p |-> PhaseMs(p[i].recorded, p[i].forBar)]
  IN  [i \in DOMAIN p |->
         [recorded |-> p[i].recorded, ms |-> ms[i], width |-> Width(ms[i], scale)]]

ShowPhases ==
  /\ Click
  /\ active = "jobs"
  /\ \E s, t \in Phases : timeline' = RenderPhases(<<s, t>>)
  /\ UNCHANGED <<serverVars, active, histVars, apiVars, dsVars>>

ClosePhases ==
  /\ timeline # None
  /\ timeline' = None
  /\ UNCHANGED <<serverVars, active, histVars, apiVars, dsVars, counts>>

-----------------------------------------------------------------------------
(***************************************************************************)
(* Tabs, the timer, and the server.                                        *)
(***************************************************************************)

\* Mutant of Loads: the history is loaded once, like the lists of the console.
LoadsOnce(tab) == tab = "hist" /\ histBody = None
Loads(tab)     == tab = "hist"

\* refresh: the loader of a tab.  That of the console fills its lists once, and that of the
\* jobs keeps nothing.
Refresh(tab) ==
  /\ IF Loads(tab) THEN LoadHist(histOffset, filter) ELSE UNCHANGED histCalls
  /\ IF tab = "api" THEN LoadApi ELSE UNCHANGED <<specCalls, drawing>>
  /\ UNCHANGED <<serverVars, histOffset, histTotal, filter, bar, histBody, openapi, header, tabVars,
                 dsVars, timeline>>

OpenTab(tab) ==
  /\ Click
  /\ tab # active
  /\ active' = tab
  /\ Refresh(tab)

\* Every three seconds, while the page is visible.
Tick ==
  /\ Refresh(active)
  /\ UNCHANGED <<active, counts>>

\* A job is recorded, or old ones are deleted.
RowsChange ==
  /\ faults < MaxFaults
  /\ faults' = faults + 1
  /\ \E f \in Filters, d \in {-1, 1} :
       /\ rows[f] + d >= 0
       /\ rows' = [rows EXCEPT ![f] = @ + d]
  /\ UNCHANGED <<served, active, histVars, apiVars, dsVars, timeline, clicks>>

User ==
  \/ HistPrev \/ HistNext \/ HistSearch \/ HistReset \/ HistType
  \/ CopyText \/ ShowPhases \/ ClosePhases
  \/ \E q \in Queries : RunDatasourceQuery(q)
  \/ \E tab \in Tabs : OpenTab(tab)

HistGoesOn(k) == HistServed(k) \/ HistDrawn(k) \/ HistShown(k)

Next ==
  \/ User \/ TimerFires \/ Tick \/ RowsChange
  \/ \E k \in Slots : HistGoesOn(k) \/ HistFails(k)
  \/ \E who \in {"header", "tab"} : SpecArrives(who) \/ SpecFails(who)
  \/ \E spec \in SUBSET OpsLinks : ApiDrawn(spec)
  \/ \E q \in Queries : DsAnswered(q) \/ DsFails(q)

(***************************************************************************)
(* Requests are answered, timers fire, and the page is looked at.          *)
(***************************************************************************)
Fairness ==
  /\ \A k \in Slots : WF_vars(HistGoesOn(k))
  /\ \A who \in {"header", "tab"} : WF_vars(SpecArrives(who))
  /\ \A spec \in SUBSET OpsLinks : WF_vars(ApiDrawn(spec))
  /\ \A q \in Queries : WF_vars(DsAnswered(q))
  /\ WF_vars(TimerFires) /\ SF_vars(Tick)

Spec == Init /\ [][Next]_vars /\ Fairness

-----------------------------------------------------------------------------

\* The pager under a table says the total of the answer that the table shows, however the
\* answers of several loads overtake each other (loadHist, pagerHtml).
PagerOfItsAnswer ==
  histBody # None => histBody.pager.total = histBody.total

\* The console says that a query is being executed only while one is (runDatasourceQuery).
RunningIsTrue == dsOut = "running" => dsCalls # {}

\* No shortcut leads to a path that the server does not have (apiQuickLinks, initHeaderLinks).
NoDeadLink ==
  \A shown \in {header, links} : shown # None => shown \subseteq DocLinks \union served

\* The bars of the timeline compare its phases: of two phases the longer one never has the
\* shorter bar.  A phase that has ended stays within its track, and fills it when none is longer,
\* although the clock goes on while the phases that still run are drawn (renderPhases, phaseMs).
BarsCompare ==
  timeline # None =>
    LET timed == {i \in DOMAIN timeline : timeline[i].ms # None}
    IN  \A i \in timed :
          LET shorter == {j \in timed : timeline[j].ms <= timeline[i].ms}
          IN  /\ \A j \in shorter : timeline[j].width <= timeline[i].width
              /\ timeline[i].recorded =>
                   /\ timeline[i].width <= 100
                   /\ timed = shorter /\ timeline[i].ms > 0 => timeline[i].width = 100

\* When the user and the server come to rest, the history shows what was asked for last: the
\* page at the offset, with the filter, labelled as such; an answer that was overtaken does
\* not stay (refresh, every three seconds).
HistSettles ==
  <>[](active = "hist" =>
         histBody = [offset |-> histOffset, filter |-> filter,
                     n |-> PageRows(histOffset, filter), total |-> rows[filter],
                     pager |-> PagerHtml(PageRows(histOffset, filter), rows[filter])])

\* A copy button gets its own label back, also when it is clicked twice and restores the
\* wrong one: the tab is drawn again.
LabelReturns == <>[](active = "api" => links # None /\ label = "copy")

=============================================================================
