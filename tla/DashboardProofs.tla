-------------------------- MODULE DashboardProofs --------------------------
(***************************************************************************)
(* Theorems about Dashboard, for every number of history rows and pages,   *)
(* loads under way, inputs, failures and durations of a phase.             *)
(***************************************************************************)
EXTENDS Dashboard, TLAPS

-----------------------------------------------------------------------------
(***************************************************************************)
(* The inductive invariant, one part per part of the page.                 *)
(***************************************************************************)
ServerOK ==
  /\ rows \in [Filters -> Nat] /\ served \subseteq OpsLinks
  /\ active \in Tabs
  /\ clicks \in 0..MaxClicks /\ faults \in 0..MaxFaults

\* A pager that was drawn is that of its load, also while the load waits for more.
HistOK ==
  /\ histOffset \in {i * HIST_LIMIT : i \in 0..clicks} /\ histTotal \in Nat
  /\ filter \in Filters /\ bar \in BOOLEAN
  /\ histCalls \in [Slots -> HistCalls \union {None}]
  /\ \A k \in Slots : At(k, "drawn") =>
       histCalls[k].pager \in Pagers /\ histCalls[k].pager.total = histCalls[k].total
  /\ histBody \in Bodies \union {None}
  /\ histBody # None => histBody.pager.total = histBody.total

\* A schema that is kept, or drawn, has nothing that the server does not have.
ApiOK ==
  /\ openapi = None \/ openapi \subseteq served
  /\ \A spec \in drawing : spec \subseteq served
  /\ specCalls \subseteq {"header", "tab"}
  /\ header = None \/ header \subseteq DocLinks \union served
  /\ links = None \/ links \subseteq DocLinks \union served
  /\ label \in Labels /\ timers \in Seq(Labels)

ConsoleOK ==
  /\ dsOut \in {"empty", "running", "failed"} \union Queries
  /\ dsCalls \subseteq Queries
  /\ dsOut = "running" => dsCalls # {}

TimelineOK == timeline = None \/ \E s, t \in Phases : timeline = RenderPhases(<<s, t>>)

IInv == ServerOK /\ HistOK /\ ApiOK /\ ConsoleOK /\ TimelineOK

-----------------------------------------------------------------------------
(***************************************************************************)
(* The bars of the timeline.                                               *)
(***************************************************************************)

LEMMA DivMonotone ==
  ASSUME NEW a \in Int, NEW c \in Int, NEW b \in Nat \ {0}, a <= c
  PROVE  a \div b \in Int /\ c \div b \in Int /\ a \div b <= c \div b
OBVIOUS

LEMMA FullBar == ASSUME NEW m \in Nat \ {0} PROVE (200 * m + m) \div (2 * m) = 100
OBVIOUS

\* A longer phase has no shorter bar, and one that is as long as the scale fills its track.
LEMMA Widths ==
  ASSUME NEW max \in Nat \ {0}, NEW a \in Int, NEW c \in Int
  PROVE  /\ Width(a, max) \in Nat
         /\ a <= c => Width(a, max) <= Width(c, max)
         /\ a = max => Width(a, max) = 100
<1>1. /\ 200 * a + max \in Int /\ 200 * c + max \in Int /\ 2 * max \in Nat \ {0}
      /\ a # None /\ c # None
  BY PhasesAssumption
<1>2. (200 * a + max) \div (2 * max) \in Int /\ (200 * c + max) \div (2 * max) \in Int
  BY <1>1, DivMonotone
<1>3. a <= c => (200 * a + max) \div (2 * max) <= (200 * c + max) \div (2 * max)
  <2> SUFFICES ASSUME a <= c
               PROVE  (200 * a + max) \div (2 * max) <= (200 * c + max) \div (2 * max)
    OBVIOUS
  <2>1. 200 * a + max <= 200 * c + max
    OBVIOUS
  <2> QED
    BY <1>1, <2>1, DivMonotone
<1>4. a = max => (200 * a + max) \div (2 * max) = 100
  BY FullBar
<1> QED
  BY <1>1, <1>2, <1>3, <1>4 DEF Width

\* Of two phases and the least scale, one is the longest.
LEMMA ScaleIsMax ==
  ASSUME NEW ms, DOMAIN ms = 1..2, \A i \in 1..2 : ms[i] # None => ms[i] \in Int
  PROVE  /\ Scale(ms) \in Nat \ {0}
         /\ \A i \in 1..2 : ms[i] # None => ms[i] <= Scale(ms)
         /\ Scale(ms) = 1 \/ \E i \in 1..2 : ms[i] # None /\ Scale(ms) = ms[i]
<1> DEFINE D == {ms[i] : i \in {k \in DOMAIN ms : ms[k] # None}} \union {1}
<1>1. \A d \in D : d = 1 \/ (ms[1] # None /\ d = ms[1]) \/ (ms[2] # None /\ d = ms[2])
  OBVIOUS
<1>2. 1 \in D /\ (ms[1] # None => ms[1] \in D) /\ (ms[2] # None => ms[2] \in D)
  OBVIOUS
<1>3. D \subseteq Int
  BY <1>1
<1> HIDE DEF D
<1>4. \E d \in D : \A x \in D : x <= d
  <2> DEFINE a == IF ms[1] # None THEN ms[1] ELSE 1
             b == IF ms[2] # None THEN ms[2] ELSE 1
             ab == IF a <= b THEN b ELSE a
             m == IF ab <= 1 THEN 1 ELSE ab
  <2>1. a \in D /\ b \in D /\ a \in Int /\ b \in Int
    BY <1>2, <1>3
  <2>2. \A d \in D : d = 1 \/ d = a \/ d = b
    BY <1>1
  <2> HIDE DEF a, b
  <2>3. m \in D /\ a <= m /\ b <= m /\ 1 <= m
    BY <1>2, <2>1
  <2> HIDE DEF m
  <2> QED
    BY <2>2, <2>3
<1>5. Scale(ms) \in D /\ \A x \in D : x <= Scale(ms)
  BY <1>4 DEF Scale, D
<1>6. Scale(ms) \in Int /\ 1 <= Scale(ms)
  BY <1>2, <1>3, <1>5
<1>7. \A i \in 1..2 : ms[i] # None => ms[i] <= Scale(ms)
  <2> TAKE i \in 1..2
  <2>1. i = 1 \/ i = 2
    OBVIOUS
  <2> QED
    BY <1>2, <1>5, <2>1
<1>8. Scale(ms) = 1 \/ \E i \in 1..2 : ms[i] # None /\ Scale(ms) = ms[i]
  <2>1. 1 \in 1..2 /\ 2 \in 1..2
    OBVIOUS
  <2> QED
    BY <1>1, <1>5, <2>1
<1> QED
  BY <1>6, <1>7, <1>8

\* The two readings of a phase: the later one is no shorter, and one that is recorded is read
\* alike; a phase that is timed for the scale is timed for its bar.
LEMMA Readings ==
  ASSUME NEW p \in Phases
  PROVE  LET scaled == PhaseMs(p.recorded, p.forScale)
             barred == PhaseMs(p.recorded, p.forBar)
         IN  /\ scaled # None => scaled \in Int /\ barred \in Int /\ barred # None /\ scaled <= barred
             /\ barred # None => barred \in Int /\ (~p.recorded => barred \in Nat)
             /\ p.recorded => scaled = barred /\ barred \in Int /\ barred # None
<1>1. /\ p.recorded \in BOOLEAN /\ p.forScale \in Int /\ p.forBar \in Int
      /\ p.forScale <= p.forBar
      /\ p.recorded => p.forScale = p.forBar
      /\ p.forScale # None /\ p.forBar # None
  BY PhasesAssumption
<1> QED
  BY <1>1 DEF PhaseMs

\* The bars of a timeline compare its phases.
Compares(line) ==
  LET timed == {i \in DOMAIN line : line[i].ms # None}
  IN  \A i \in timed :
        LET shorter == {j \in timed : line[j].ms <= line[i].ms}
        IN  /\ \A j \in shorter : line[j].width <= line[i].width
            /\ line[i].recorded =>
                 /\ line[i].width <= 100
                 /\ timed = shorter /\ line[i].ms > 0 => line[i].width = 100

\* What the modal shows of two phases.
LEMMA Rendered ==
  ASSUME NEW s \in Phases, NEW t \in Phases
  PROVE  /\ RenderPhases(<<s, t>>) \in Seq(TimelineRows)
         /\ Compares(RenderPhases(<<s, t>>))
<1> DEFINE p == <<s, t>>
           sc == [i \in 1..2 |-> PhaseMs(p[i].recorded, p[i].forScale)]
           ms == [i \in 1..2 |-> PhaseMs(p[i].recorded, p[i].forBar)]
           rec == [i \in 1..2 |-> p[i].recorded]
           max == Scale(sc)
           line == [i \in 1..2 |->
                      [recorded |-> rec[i], ms |-> ms[i], width |-> Width(ms[i], max)]]
           timed == {i \in 1..2 : ms[i] # None}
<1>1. RenderPhases(<<s, t>>) = line
  BY DEF RenderPhases
<1>2. \A i \in 1..2 :
        /\ sc[i] # None => sc[i] \in Int /\ ms[i] \in Int /\ ms[i] # None /\ sc[i] <= ms[i]
        /\ ms[i] # None => ms[i] \in Int /\ (~rec[i] => ms[i] \in Nat)
        /\ rec[i] => sc[i] = ms[i] /\ ms[i] \in Int /\ ms[i] # None
        /\ rec[i] \in BOOLEAN
  <2> TAKE i \in 1..2
  <2>1. p[i] \in Phases
    OBVIOUS
  <2>2. /\ sc[i] = PhaseMs(p[i].recorded, p[i].forScale)
        /\ ms[i] = PhaseMs(p[i].recorded, p[i].forBar)
        /\ rec[i] = p[i].recorded
    OBVIOUS
  <2> HIDE DEF p, sc, ms, rec
  <2>3. p[i].recorded \in BOOLEAN
    BY <2>1, PhasesAssumption
  <2> QED
    BY <2>1, <2>2, <2>3, Readings
<1>3. DOMAIN sc = 1..2
  OBVIOUS
<1> HIDE DEF ms, sc, rec
<1>4. /\ max \in Nat \ {0}
      /\ \A i \in 1..2 : sc[i] # None => sc[i] <= max
      /\ max = 1 \/ \E i \in 1..2 : sc[i] # None /\ max = sc[i]
  BY <1>2, <1>3, ScaleIsMax
<1> HIDE DEF max
<1>5. \A i \in 1..2 : Width(ms[i], max) \in Nat
  <2> TAKE i \in 1..2
  <2>1. CASE ms[i] = None
    BY <2>1 DEF Width
  <2>2. CASE ms[i] # None
    BY <1>2, <1>4, <2>2, Widths
  <2> QED
    BY <2>1, <2>2
<1>6. line \in Seq(TimelineRows)
  <2>1. \A i \in 1..2 : line[i] \in TimelineRows
    <3> TAKE i \in 1..2
    <3>1. CASE rec[i]
      BY <1>2, <1>5, <3>1 DEF TimelineRows
    <3>2. CASE ~rec[i]
      BY <1>2, <1>5, <3>2 DEF TimelineRows
    <3> QED
      BY <3>1, <3>2
  <2>2. line \in [1..2 -> TimelineRows]
    BY <2>1
  <2> QED
    BY <2>2
<1>7. \A i, j \in timed : ms[j] <= ms[i] => Width(ms[j], max) <= Width(ms[i], max)
  BY <1>2, <1>4, Widths
<1>8. ASSUME NEW i \in timed, rec[i]
      PROVE  /\ Width(ms[i], max) <= 100
             /\ (\A j \in timed : ms[j] <= ms[i]) /\ ms[i] > 0 => Width(ms[i], max) = 100
  <2>1. ms[i] \in Int /\ ms[i] <= max
    BY <1>2, <1>4, <1>8
  <2>2. Width(max, max) = 100 /\ Width(max, max) \in Nat /\ Width(ms[i], max) <= Width(max, max)
    BY <1>4, <2>1, Widths
  <2>3. ASSUME \A j \in timed : ms[j] <= ms[i], ms[i] > 0 PROVE ms[i] = max
    <3>1. CASE max = 1
      BY <2>1, <2>3, <3>1
    <3>2. ASSUME NEW j \in 1..2, sc[j] # None, max = sc[j] PROVE ms[i] = max
      <4>1. ms[j] \in Int /\ sc[j] \in Int /\ j \in timed /\ sc[j] <= ms[j]
        BY <1>2, <3>2
      <4> QED
        BY <2>1, <2>3, <3>2, <4>1
    <3> QED
      BY <1>4, <3>1, <3>2
  <2> QED
    BY <2>2, <2>3
<1>9. /\ DOMAIN line = 1..2
      /\ \A i \in 1..2 : /\ line[i].ms = ms[i] /\ line[i].width = Width(ms[i], max)
                         /\ line[i].recorded = rec[i]
  OBVIOUS
<1> HIDE DEF line
<1>10. timed = {i \in DOMAIN line : line[i].ms # None}
  BY <1>9
<1>11. \A i \in timed :
         LET shorter == {j \in timed : line[j].ms <= line[i].ms}
         IN  /\ \A j \in shorter : line[j].width <= line[i].width
             /\ line[i].recorded =>
                  /\ line[i].width <= 100
                  /\ timed = shorter /\ line[i].ms > 0 => line[i].width = 100
  <2> TAKE i \in timed
  <2> DEFINE shorter == {j \in timed : line[j].ms <= line[i].ms}
  <2>1. \A j \in shorter : line[j].width <= line[i].width
    BY <1>7, <1>9
  <2>2. ASSUME line[i].recorded PROVE line[i].width <= 100
    BY <1>8, <1>9, <2>2
  <2>3. ASSUME line[i].recorded, timed = shorter, line[i].ms > 0 PROVE line[i].width = 100
    <3>1. \A j \in timed : ms[j] <= ms[i]
      BY <1>9, <2>3
    <3> QED
      BY <1>8, <1>9, <2>3, <3>1
  <2> QED
    BY <2>1, <2>2, <2>3
<1>12. Compares(line)
  BY ONLY <1>10, <1>11 DEF Compares
<1> QED
  BY ONLY <1>1, <1>6, <1>12

-----------------------------------------------------------------------------
(***************************************************************************)
(* The parts that a step leaves alone.                                     *)
(***************************************************************************)

LEMMA SameServer ==
  ASSUME ServerOK, UNCHANGED <<serverVars, active>>,
         clicks' \in 0..MaxClicks, faults' \in 0..MaxFaults
  PROVE  ServerOK'
BY DEF ServerOK, serverVars

LEMMA SameHist ==
  ASSUME ServerOK, HistOK, UNCHANGED histVars, clicks' \in Nat, clicks <= clicks'
  PROVE  HistOK'
<1>1. clicks \in Nat
  BY DEF ServerOK
<1>2. 0..clicks \subseteq 0..clicks'
  BY <1>1
<1>3. histOffset' \in {i * HIST_LIMIT : i \in 0..clicks'}
  BY <1>2 DEF HistOK, histVars
<1> QED
  BY <1>3 DEF HistOK, histVars, At

LEMMA SameApi == ASSUME ApiOK, UNCHANGED <<served, apiVars>> PROVE ApiOK'
BY DEF ApiOK, apiVars, tabVars

LEMMA SameConsole == ASSUME ConsoleOK, UNCHANGED dsVars PROVE ConsoleOK'
BY DEF ConsoleOK, dsVars

\* A step that is no input of the user.
LEMMA NoClick ==
  ASSUME ServerOK, UNCHANGED clicks
  PROVE  clicks' \in 0..MaxClicks /\ clicks' \in Nat /\ clicks <= clicks'
<1>1. clicks \in 0..MaxClicks /\ MaxClicks \in Nat
  BY BoundsAssumption DEF ServerOK
<1> QED
  BY <1>1

LEMMA ClickCounts ==
  ASSUME ServerOK, Click
  PROVE  /\ clicks' = clicks + 1 /\ clicks \in Nat /\ clicks' \in Nat /\ clicks <= clicks'
         /\ clicks' \in 0..MaxClicks /\ faults' \in 0..MaxFaults
<1>1. clicks \in 0..MaxClicks /\ MaxClicks \in Nat
  BY BoundsAssumption DEF ServerOK
<1> QED
  BY <1>1 DEF ServerOK, Click

LEMMA FaultCounts ==
  ASSUME ServerOK, faults < MaxFaults, faults' = faults + 1 PROVE faults' \in 0..MaxFaults
<1>1. faults \in 0..MaxFaults /\ MaxFaults \in Nat
  BY BoundsAssumption DEF ServerOK
<1> QED
  BY <1>1

-----------------------------------------------------------------------------
(***************************************************************************)
(* The history.                                                            *)
(***************************************************************************)

LEMMA Offsets == ASSUME ServerOK, HistOK PROVE histOffset \in Nat
<1>1. PICK i \in 0..clicks : histOffset = i * HIST_LIMIT
  BY DEF HistOK
<1>2. i \in Nat /\ HIST_LIMIT \in Nat
  BY PageAssumption DEF ServerOK
<1> QED
  BY <1>1, <1>2

LEMMA NewLoad ==
  ASSUME HistOK, NEW o \in Nat, NEW f \in Filters, LoadHist(o, f)
  PROVE  /\ histCalls' \in [Slots -> HistCalls \union {None}]
         /\ \A k \in Slots : At(k, "drawn")' =>
              histCalls'[k].pager \in Pagers /\ histCalls'[k].pager.total = histCalls'[k].total
<1> DEFINE new == [offset |-> o, filter |-> f, at |-> "sent", n |-> 0, total |-> 0, pager |-> None]
<1>1. PICK k \in Slots : histCalls' = [histCalls EXCEPT ![k] = new]
  <2> DEFINE free == {x \in Slots : histCalls[x] = None}
  <2>1. (CHOOSE x \in free : TRUE) \in Slots
    BY DEF LoadHist
  <2> QED
    BY <2>1 DEF LoadHist
<1>2. new \in HistCalls /\ new.at # "drawn"
  <2>1. 0 \in 0..HIST_LIMIT
    BY PageAssumption
  <2> QED
    BY <2>1 DEF HistCalls
<1> HIDE DEF new
<1>3. histCalls' \in [Slots -> HistCalls \union {None}]
  BY <1>1, <1>2 DEF HistOK
<1>4. ASSUME NEW x \in Slots, At(x, "drawn")'
      PROVE  histCalls'[x].pager \in Pagers /\ histCalls'[x].pager.total = histCalls'[x].total
  <2>1. x # k /\ histCalls'[x] = histCalls[x]
    BY <1>1, <1>2, <1>4 DEF HistOK, At
  <2> QED
    BY <1>4, <2>1 DEF HistOK, At
<1> QED
  BY <1>3, <1>4

LEMMA PageSize ==
  ASSUME ServerOK, NEW o \in Nat, NEW f \in Filters PROVE PageRows(o, f) \in 0..HIST_LIMIT
<1>1. rows[f] \in Nat /\ HIST_LIMIT \in Nat
  BY PageAssumption DEF ServerOK
<1> QED
  BY <1>1 DEF PageRows

LEMMA PagerType ==
  ASSUME ServerOK, HistOK, NEW n \in 0..HIST_LIMIT, NEW total \in Nat
  PROVE  PagerHtml(n, total) \in Pagers /\ PagerHtml(n, total).total = total
<1>1. histOffset \in Nat /\ n \in Nat
  BY Offsets, PageAssumption
<1>2. /\ (IF total > 0 THEN histOffset + 1 ELSE 0) \in Nat
      /\ histOffset + n \in Nat
  BY <1>1
<1>3. (histOffset > 0) \in BOOLEAN /\ (histOffset + n < total) \in BOOLEAN
  OBVIOUS
<1> QED
  BY <1>2, <1>3, Zenon DEF PagerHtml, Pagers

LEMMA SameOffset ==
  ASSUME ServerOK, HistOK, UNCHANGED histOffset, clicks' \in Nat, clicks <= clicks'
  PROVE  histOffset' \in {i * HIST_LIMIT : i \in 0..clicks'}
<1>1. clicks \in Nat
  BY DEF ServerOK
<1>2. 0..clicks \subseteq 0..clicks'
  BY <1>1
<1> QED
  BY <1>2 DEF HistOK

\* One load goes on.
LEMMA SetCall ==
  ASSUME ServerOK, HistOK, NEW k \in Slots, NEW new \in HistCalls,
         histCalls' = [histCalls EXCEPT ![k] = new],
         new.at = "drawn" => new.pager \in Pagers /\ new.pager.total = new.total,
         UNCHANGED <<histOffset, filter, histBody>>, histTotal' \in Nat, bar' \in BOOLEAN,
         clicks' \in Nat, clicks <= clicks'
  PROVE  HistOK'
<1>1. histOffset' \in {i * HIST_LIMIT : i \in 0..clicks'}
  BY SameOffset
<1>2. histCalls' \in [Slots -> HistCalls \union {None}]
  BY DEF HistOK
<1>3. ASSUME NEW x \in Slots, At(x, "drawn")'
      PROVE  histCalls'[x].pager \in Pagers /\ histCalls'[x].pager.total = histCalls'[x].total
  <2>1. CASE x = k
    <3>1. histCalls'[x] = new
      BY <2>1 DEF HistOK
    <3> QED
      BY <1>3, <3>1 DEF At
  <2>2. CASE x # k
    <3>1. histCalls'[x] = histCalls[x]
      BY <2>2 DEF HistOK
    <3> QED
      BY <1>3, <3>1 DEF At, HistOK
  <2> QED
    BY <2>1, <2>2
<1> QED
  BY <1>1, <1>2, <1>3 DEF HistOK

LEMMA HistServedStep == ASSUME IInv, NEW k \in Slots, HistServed(k) PROVE IInv'
<1> USE DEF IInv
<1>1. /\ clicks' \in Nat /\ clicks <= clicks'
      /\ clicks' \in 0..MaxClicks /\ faults' \in 0..MaxFaults
  BY NoClick DEF HistServed, counts, ServerOK
<1>2. ServerOK'
  BY <1>1, SameServer DEF HistServed
<1>3. HistOK'
  <2> DEFINE c == histCalls[k]
  <2>1. c \in HistCalls /\ c # None /\ c.at = "sent"
    BY DEF HistServed, At, HistOK
  <2>2. PageRows(c.offset, c.filter) \in 0..HIST_LIMIT /\ rows[c.filter] \in Nat
    BY <2>1, PageSize DEF HistCalls, ServerOK
  <2> DEFINE new == [c EXCEPT !.at = "answered", !.total = rows[c.filter],
                              !.n = PageRows(c.offset, c.filter)]
  <2>3. histCalls' = [histCalls EXCEPT ![k] = new]
    BY DEF HistServed, HistOK
  <2>4. new \in HistCalls /\ new.at = "answered"
    BY <2>1, <2>2 DEF HistCalls
  <2> HIDE DEF new
  <2> QED
    <3>1. /\ UNCHANGED <<histOffset, histTotal, filter, histBody>>
          /\ histTotal' \in Nat /\ bar' \in BOOLEAN
      BY DEF HistServed, HistOK
    <3> QED
      BY <1>1, <2>3, <2>4, <3>1, SetCall
<1>4. ApiOK'
  BY SameApi DEF HistServed, serverVars, apiVars
<1>5. ConsoleOK'
  BY SameConsole DEF HistServed
<1>6. TimelineOK'
  BY DEF HistServed, TimelineOK
<1> QED
  BY <1>2, <1>3, <1>4, <1>5, <1>6

LEMMA HistDrawnStep == ASSUME IInv, NEW k \in Slots, HistDrawn(k) PROVE IInv'
<1> USE DEF IInv
<1>1. /\ clicks' \in Nat /\ clicks <= clicks'
      /\ clicks' \in 0..MaxClicks /\ faults' \in 0..MaxFaults
  BY NoClick DEF HistDrawn, counts, ServerOK
<1>2. ServerOK'
  BY <1>1, SameServer DEF HistDrawn
<1>3. HistOK'
  <2> DEFINE c == histCalls[k]
  <2>1. c \in HistCalls /\ c # None /\ c.at = "answered"
    BY DEF HistDrawn, At, HistOK
  <2>2. c.n \in 0..HIST_LIMIT /\ c.total \in Nat
    BY <2>1 DEF HistCalls
  <2> DEFINE p == PagerHtml(c.n, c.total)
             new == [c EXCEPT !.at = "drawn", !.pager = p]
  <2>3. histCalls' = [histCalls EXCEPT ![k] = new]
    BY DEF HistDrawn
  <2>4. p \in Pagers /\ p.total = c.total
    BY <2>2, PagerType
  <2> HIDE DEF p
  <2>5. new \in HistCalls /\ new.pager = p /\ new.total = c.total
    BY <2>1, <2>4 DEF HistCalls
  <2> HIDE DEF new
  <2>6. UNCHANGED <<histOffset, filter, histBody>> /\ histTotal' \in Nat /\ bar' \in BOOLEAN
    BY <2>2 DEF HistDrawn
  <2> QED
    BY <1>1, <2>3, <2>4, <2>5, <2>6, SetCall
<1>4. ApiOK'
  BY SameApi DEF HistDrawn, serverVars, apiVars
<1>5. ConsoleOK'
  BY SameConsole DEF HistDrawn
<1>6. TimelineOK'
  BY DEF HistDrawn, TimelineOK
<1> QED
  BY <1>2, <1>3, <1>4, <1>5, <1>6

LEMMA HistShownStep == ASSUME IInv, NEW k \in Slots, HistShown(k) PROVE IInv'
<1> USE DEF IInv
<1>1. /\ clicks' \in Nat /\ clicks <= clicks'
      /\ clicks' \in 0..MaxClicks /\ faults' \in 0..MaxFaults
  BY NoClick DEF HistShown, counts, ServerOK
<1>2. ServerOK'
  BY <1>1, SameServer DEF HistShown
<1>3. HistOK'
  <2> DEFINE c == histCalls[k]
  <2>1. c \in HistCalls /\ c # None /\ c.at = "drawn"
    BY DEF HistShown, At, HistOK
  <2>2. c.pager \in Pagers /\ c.pager.total = c.total
    BY DEF HistShown, HistOK
  <2> DEFINE body == [offset |-> c.offset, filter |-> c.filter, n |-> c.n, total |-> c.total,
                      pager |-> c.pager]
  <2>3. histBody' = body /\ histCalls' = [histCalls EXCEPT ![k] = None]
    BY DEF HistShown, Drawn
  <2>4. body \in Bodies /\ body.pager.total = body.total
    BY <2>1, <2>2 DEF HistCalls, Bodies
  <2> HIDE DEF body
  <2>5. UNCHANGED <<histOffset, histTotal, filter, bar>>
    BY DEF HistShown
  <2>6. histOffset' \in {i * HIST_LIMIT : i \in 0..clicks'}
    BY <1>1, <2>5, SameOffset
  <2>7. histCalls' \in [Slots -> HistCalls \union {None}]
    BY <2>3 DEF HistOK
  <2>8. \A x \in Slots : At(x, "drawn")' => At(x, "drawn") /\ histCalls'[x] = histCalls[x]
    BY <2>3 DEF At, HistOK
  <2> QED
    BY <2>3, <2>4, <2>5, <2>6, <2>7, <2>8 DEF HistOK
<1>4. ApiOK'
  BY SameApi DEF HistShown, serverVars, apiVars
<1>5. ConsoleOK'
  BY SameConsole DEF HistShown
<1>6. TimelineOK'
  BY DEF HistShown, TimelineOK
<1> QED
  BY <1>2, <1>3, <1>4, <1>5, <1>6

LEMMA HistFailsStep == ASSUME IInv, NEW k \in Slots, HistFails(k) PROVE IInv'
<1> USE DEF IInv
<1>1. /\ clicks' \in Nat /\ clicks <= clicks'
      /\ clicks' \in 0..MaxClicks /\ faults' \in 0..MaxFaults
  BY NoClick, FaultCounts DEF HistFails
<1>2. ServerOK'
  BY <1>1, SameServer DEF HistFails
<1>3. HistOK'
  <2>1. /\ histCalls' = [histCalls EXCEPT ![k] = None]
        /\ UNCHANGED <<histOffset, histTotal, filter>>
        /\ bar' \in BOOLEAN /\ histBody' \in {histBody, None}
    BY DEF HistFails, HistOK
  <2>2. histOffset' \in {i * HIST_LIMIT : i \in 0..clicks'}
    BY <1>1, <2>1, SameOffset
  <2>3. histCalls' \in [Slots -> HistCalls \union {None}]
    BY <2>1 DEF HistOK
  <2>4. \A x \in Slots : At(x, "drawn")' => At(x, "drawn") /\ histCalls'[x] = histCalls[x]
    BY <2>1 DEF At, HistOK
  <2> QED
    BY <2>1, <2>2, <2>3, <2>4 DEF HistOK
<1>4. ApiOK'
  BY SameApi DEF HistFails, serverVars, apiVars
<1>5. ConsoleOK'
  BY SameConsole DEF HistFails
<1>6. TimelineOK'
  BY DEF HistFails, TimelineOK
<1> QED
  BY <1>2, <1>3, <1>4, <1>5, <1>6

\* The offset moves by one page at most.
LEMMA TurnStep ==
  ASSUME IInv, NEW j \in Nat, j <= clicks + 1, NEW f \in Filters, Turn(j * HIST_LIMIT, f)
  PROVE  IInv'
<1> USE DEF IInv
<1>1. /\ clicks' = clicks + 1 /\ clicks \in Nat /\ clicks' \in Nat /\ clicks <= clicks'
      /\ clicks' \in 0..MaxClicks /\ faults' \in 0..MaxFaults
  BY ClickCounts DEF Turn
<1>2. ServerOK'
  BY <1>1, SameServer DEF Turn
<1>3. HistOK'
  <2>1. j * HIST_LIMIT \in Nat
    BY PageAssumption
  <2>2. /\ histCalls' \in [Slots -> HistCalls \union {None}]
        /\ \A k \in Slots : At(k, "drawn")' =>
             histCalls'[k].pager \in Pagers /\ histCalls'[k].pager.total = histCalls'[k].total
    BY <2>1, NewLoad DEF Turn
  <2>3. j \in 0..clicks'
    BY <1>1
  <2>4. histOffset' = j * HIST_LIMIT /\ filter' = f /\ UNCHANGED <<histTotal, bar, histBody>>
    BY DEF Turn
  <2>5. histOffset' \in {i * HIST_LIMIT : i \in 0..clicks'}
    BY <2>3, <2>4
  <2> QED
    BY <2>2, <2>4, <2>5 DEF HistOK
<1>4. ApiOK'
  BY SameApi DEF Turn, serverVars
<1>5. ConsoleOK'
  BY SameConsole DEF Turn
<1>6. TimelineOK'
  BY DEF Turn, TimelineOK
<1> QED
  BY <1>2, <1>3, <1>4, <1>5, <1>6

LEMMA HistPrevStep == ASSUME IInv, HistPrev PROVE IInv'
<1>1. PICK i \in 0..clicks : histOffset = i * HIST_LIMIT
  BY DEF IInv, HistOK
<1>2. i \in Nat /\ clicks \in Nat /\ HIST_LIMIT \in Nat \ {0} /\ i <= clicks
  BY PageAssumption DEF IInv, ServerOK
<1>3. filter \in Filters
  BY DEF IInv, HistOK
<1>4. CASE histOffset > HIST_LIMIT
  <2>1. i - 1 \in Nat /\ (i - 1) * HIST_LIMIT = i * HIST_LIMIT - HIST_LIMIT
    BY <1>1, <1>2, <1>4
  <2>2. Turn((i - 1) * HIST_LIMIT, filter) /\ i - 1 <= clicks + 1
    BY <1>1, <1>2, <1>4, <2>1 DEF HistPrev
  <2> QED
    BY <1>3, <2>1, <2>2, TurnStep
<1>5. CASE ~(histOffset > HIST_LIMIT)
  <2>1. 0 * HIST_LIMIT = 0
    BY <1>2
  <2>2. Turn(0 * HIST_LIMIT, filter)
    BY <1>5, <2>1 DEF HistPrev
  <2>3. 0 \in Nat /\ 0 <= clicks + 1
    BY <1>2
  <2> QED
    BY <1>3, <2>2, <2>3, TurnStep
<1> QED
  BY <1>4, <1>5

LEMMA HistNextStep == ASSUME IInv, HistNext PROVE IInv'
<1>1. PICK i \in 0..clicks : histOffset = i * HIST_LIMIT
  BY DEF IInv, HistOK
<1>2. i \in Nat /\ clicks \in Nat /\ HIST_LIMIT \in Nat \ {0} /\ i <= clicks
  BY PageAssumption DEF IInv, ServerOK
<1>3. i + 1 \in Nat /\ i + 1 <= clicks + 1 /\ (i + 1) * HIST_LIMIT = i * HIST_LIMIT + HIST_LIMIT
  BY <1>2
<1>4. Turn((i + 1) * HIST_LIMIT, filter)
  BY <1>1, <1>3 DEF HistNext
<1>5. filter \in Filters
  BY DEF IInv, HistOK
<1> QED
  BY <1>3, <1>4, <1>5, TurnStep

LEMMA FirstPageStep == ASSUME IInv, NEW f \in Filters, Turn(0, f) PROVE IInv'
<1>1. 0 * HIST_LIMIT = 0 /\ 0 \in Nat /\ 0 <= clicks + 1
  BY PageAssumption DEF IInv, ServerOK
<1>2. Turn(0 * HIST_LIMIT, f)
  BY <1>1
<1> QED
  BY <1>1, <1>2, TurnStep

LEMMA HistTypeStep == ASSUME IInv, HistType PROVE IInv'
<1> USE DEF IInv
<1>1. /\ clicks' \in Nat /\ clicks <= clicks'
      /\ clicks' \in 0..MaxClicks /\ faults' \in 0..MaxFaults
  BY ClickCounts DEF HistType
<1>2. ServerOK'
  BY <1>1, SameServer DEF HistType
<1>3. HistOK'
  <2>1. filter' \in Filters /\ UNCHANGED <<histOffset, histTotal, bar, histCalls, histBody>>
    BY DEF HistType
  <2>2. histOffset' \in {i * HIST_LIMIT : i \in 0..clicks'}
    BY <1>1, <2>1, SameOffset
  <2> QED
    BY <2>1, <2>2 DEF HistOK, At
<1>4. ApiOK'
  BY SameApi DEF HistType, serverVars, apiVars
<1>5. ConsoleOK'
  BY SameConsole DEF HistType
<1>6. TimelineOK'
  BY DEF HistType, TimelineOK
<1> QED
  BY <1>2, <1>3, <1>4, <1>5, <1>6

-----------------------------------------------------------------------------
(***************************************************************************)
(* The API tab, the console, the timeline, and the tabs.                   *)
(***************************************************************************)

\* The tab is drawn with paths that the server has.
LEMMA ApiDrawnStep == ASSUME IInv, NEW spec \in SUBSET OpsLinks, ApiDrawn(spec) PROVE IInv'
<1> USE DEF IInv
<1>1. /\ clicks' \in Nat /\ clicks <= clicks'
      /\ clicks' \in 0..MaxClicks /\ faults' \in 0..MaxFaults
  BY NoClick DEF ApiDrawn, counts, ServerOK
<1>2. ServerOK'
  BY <1>1, SameServer DEF ApiDrawn
<1>3. HistOK'
  BY <1>1, SameHist DEF ApiDrawn, histVars
<1>4. ApiOK'
  <2>1. spec \subseteq served /\ drawing' \subseteq drawing
    BY DEF ApiDrawn, ApiOK
  <2>2. links' = QuickLinks(spec) /\ label' = "copy" /\ timers' = << >>
    BY DEF ApiDrawn, Redraws
  <2>3. QuickLinks(spec) \subseteq DocLinks \union served
    BY <2>1 DEF QuickLinks
  <2>4. label' \in Labels /\ timers' \in Seq(Labels)
    BY <2>2 DEF Labels
  <2> QED
    BY <2>1, <2>2, <2>3, <2>4 DEF ApiDrawn, ApiOK, serverVars
<1>5. ConsoleOK'
  BY SameConsole DEF ApiDrawn
<1>6. TimelineOK'
  BY DEF ApiDrawn, TimelineOK
<1> QED
  BY <1>2, <1>3, <1>4, <1>5, <1>6

\* A schema without a path that the server lacks is taken.
LEMMA UsesSpec ==
  ASSUME ApiOK, NEW who \in {"header", "tab"}, NEW spec, spec \subseteq served, Uses(who, spec),
         UNCHANGED <<served, tabVars>>, specCalls' \subseteq {"header", "tab"}
  PROVE  ApiOK'
<1>1. header' = None \/ header' \subseteq DocLinks \union served
  BY DEF Uses, ApiOK
<1>2. \A d \in drawing' : d \subseteq served
  BY DEF Uses, ApiOK
<1> QED
  BY <1>1, <1>2 DEF Uses, ApiOK, tabVars

LEMMA SpecArrivesStep == ASSUME IInv, NEW who \in {"header", "tab"}, SpecArrives(who) PROVE IInv'
<1> USE DEF IInv
<1>1. /\ clicks' \in Nat /\ clicks <= clicks'
      /\ clicks' \in 0..MaxClicks /\ faults' \in 0..MaxFaults
  BY NoClick DEF SpecArrives, counts, ServerOK
<1>2. ServerOK'
  BY <1>1, SameServer DEF SpecArrives
<1>3. HistOK'
  BY <1>1, SameHist DEF SpecArrives, histVars
<1>4. ApiOK'
  BY UsesSpec DEF SpecArrives, serverVars, ApiOK
<1>5. ConsoleOK'
  BY SameConsole DEF SpecArrives
<1>6. TimelineOK'
  BY DEF SpecArrives, TimelineOK
<1> QED
  BY <1>2, <1>3, <1>4, <1>5, <1>6

LEMMA SpecFailsStep == ASSUME IInv, NEW who \in {"header", "tab"}, SpecFails(who) PROVE IInv'
<1> USE DEF IInv
<1>1. /\ clicks' \in Nat /\ clicks <= clicks'
      /\ clicks' \in 0..MaxClicks /\ faults' \in 0..MaxFaults
  BY NoClick, FaultCounts DEF SpecFails
<1>2. ServerOK'
  BY <1>1, SameServer DEF SpecFails
<1>3. HistOK'
  BY <1>1, SameHist DEF SpecFails, histVars
<1>4. ApiOK'
  <2>1. UNCHANGED <<served, tabVars>> /\ specCalls' \subseteq {"header", "tab"}
    BY DEF SpecFails, serverVars, ApiOK
  <2>2. CASE Uses(who, {})
    BY <2>1, <2>2, UsesSpec
  <2>3. CASE ~Uses(who, {})
    <3>1. /\ header' = IF who = "header" THEN DocLinks ELSE header
          /\ UNCHANGED <<openapi, drawing>>
      BY <2>3 DEF SpecFails
    <3> QED
      BY <2>1, <3>1 DEF ApiOK, tabVars
  <2> QED
    BY <2>2, <2>3
<1>5. ConsoleOK'
  BY SameConsole DEF SpecFails
<1>6. TimelineOK'
  BY DEF SpecFails, TimelineOK
<1> QED
  BY <1>2, <1>3, <1>4, <1>5, <1>6

LEMMA CopyTextStep == ASSUME IInv, CopyText PROVE IInv'
<1> USE DEF IInv
<1>1. /\ clicks' \in Nat /\ clicks <= clicks'
      /\ clicks' \in 0..MaxClicks /\ faults' \in 0..MaxFaults
  BY ClickCounts DEF CopyText
<1>2. ServerOK'
  BY <1>1, SameServer DEF CopyText
<1>3. HistOK'
  BY <1>1, SameHist DEF CopyText, histVars
<1>4. ApiOK'
  <2>1. timers' \in Seq(Labels) /\ label' \in Labels
    BY DEF CopyText, ApiOK, Labels
  <2> QED
    BY <2>1 DEF CopyText, ApiOK, serverVars
<1>5. ConsoleOK'
  BY SameConsole DEF CopyText
<1>6. TimelineOK'
  BY DEF CopyText, TimelineOK
<1> QED
  BY <1>2, <1>3, <1>4, <1>5, <1>6

LEMMA TimerFiresStep == ASSUME IInv, TimerFires PROVE IInv'
<1> USE DEF IInv
<1>1. /\ clicks' \in Nat /\ clicks <= clicks'
      /\ clicks' \in 0..MaxClicks /\ faults' \in 0..MaxFaults
  BY NoClick DEF TimerFires, counts, ServerOK
<1>2. ServerOK'
  BY <1>1, SameServer DEF TimerFires
<1>3. HistOK'
  BY <1>1, SameHist DEF TimerFires, histVars
<1>4. ApiOK'
  <2>1. timers' \in Seq(Labels) /\ label' \in Labels
    BY DEF TimerFires, ApiOK
  <2> QED
    BY <2>1 DEF TimerFires, ApiOK, serverVars
<1>5. ConsoleOK'
  BY SameConsole DEF TimerFires
<1>6. TimelineOK'
  BY DEF TimerFires, TimelineOK
<1> QED
  BY <1>2, <1>3, <1>4, <1>5, <1>6

LEMMA RunDatasourceQueryStep == ASSUME IInv, NEW q \in Queries, RunDatasourceQuery(q) PROVE IInv'
<1> USE DEF IInv
<1>1. /\ clicks' \in Nat /\ clicks <= clicks'
      /\ clicks' \in 0..MaxClicks /\ faults' \in 0..MaxFaults
  BY ClickCounts DEF RunDatasourceQuery
<1>2. ServerOK'
  BY <1>1, SameServer DEF RunDatasourceQuery
<1>3. HistOK'
  BY <1>1, SameHist DEF RunDatasourceQuery, histVars
<1>4. ApiOK'
  BY SameApi DEF RunDatasourceQuery, serverVars, apiVars
<1>5. ConsoleOK'
  BY DEF RunDatasourceQuery, ConsoleOK
<1>6. TimelineOK'
  BY DEF RunDatasourceQuery, TimelineOK
<1> QED
  BY <1>2, <1>3, <1>4, <1>5, <1>6

LEMMA DsAnsweredStep == ASSUME IInv, NEW q \in Queries, DsAnswered(q) PROVE IInv'
<1> USE DEF IInv
<1>1. /\ clicks' \in Nat /\ clicks <= clicks'
      /\ clicks' \in 0..MaxClicks /\ faults' \in 0..MaxFaults
  BY NoClick DEF DsAnswered, counts, ServerOK
<1>2. ServerOK'
  BY <1>1, SameServer DEF DsAnswered
<1>3. HistOK'
  BY <1>1, SameHist DEF DsAnswered, histVars
<1>4. ApiOK'
  BY SameApi DEF DsAnswered, serverVars, apiVars
<1>5. ConsoleOK'
  BY PageAssumption DEF DsAnswered, ConsoleOK
<1>6. TimelineOK'
  BY DEF DsAnswered, TimelineOK
<1> QED
  BY <1>2, <1>3, <1>4, <1>5, <1>6

LEMMA DsFailsStep == ASSUME IInv, NEW q \in Queries, DsFails(q) PROVE IInv'
<1> USE DEF IInv
<1>1. /\ clicks' \in Nat /\ clicks <= clicks'
      /\ clicks' \in 0..MaxClicks /\ faults' \in 0..MaxFaults
  BY NoClick, FaultCounts DEF DsFails
<1>2. ServerOK'
  BY <1>1, SameServer DEF DsFails
<1>3. HistOK'
  BY <1>1, SameHist DEF DsFails, histVars
<1>4. ApiOK'
  BY SameApi DEF DsFails, serverVars, apiVars
<1>5. ConsoleOK'
  BY DEF DsFails, Caught, ConsoleOK
<1>6. TimelineOK'
  BY DEF DsFails, TimelineOK
<1> QED
  BY <1>2, <1>3, <1>4, <1>5, <1>6

LEMMA ShowPhasesStep == ASSUME IInv, ShowPhases PROVE IInv'
<1> USE DEF IInv
<1>1. /\ clicks' \in Nat /\ clicks <= clicks'
      /\ clicks' \in 0..MaxClicks /\ faults' \in 0..MaxFaults
  BY ClickCounts DEF ShowPhases
<1>2. ServerOK'
  BY <1>1, SameServer DEF ShowPhases
<1>3. HistOK'
  BY <1>1, SameHist DEF ShowPhases, histVars
<1>4. ApiOK'
  BY SameApi DEF ShowPhases, serverVars, apiVars
<1>5. ConsoleOK'
  BY SameConsole DEF ShowPhases
<1>6. TimelineOK'
  BY DEF ShowPhases, TimelineOK
<1> QED
  BY <1>2, <1>3, <1>4, <1>5, <1>6

LEMMA ClosePhasesStep == ASSUME IInv, ClosePhases PROVE IInv'
<1> USE DEF IInv
<1>1. /\ clicks' \in Nat /\ clicks <= clicks'
      /\ clicks' \in 0..MaxClicks /\ faults' \in 0..MaxFaults
  BY NoClick DEF ClosePhases, counts, ServerOK
<1>2. ServerOK'
  BY <1>1, SameServer DEF ClosePhases
<1>3. HistOK'
  BY <1>1, SameHist DEF ClosePhases, histVars
<1>4. ApiOK'
  BY SameApi DEF ClosePhases, serverVars, apiVars
<1>5. ConsoleOK'
  BY SameConsole DEF ClosePhases
<1>6. TimelineOK'
  BY DEF ClosePhases, TimelineOK
<1> QED
  BY <1>2, <1>3, <1>4, <1>5, <1>6

\* refresh, whoever starts it.
LEMMA RefreshStep ==
  ASSUME IInv, NEW tab \in Tabs, Refresh(tab), active' \in Tabs, faults' \in 0..MaxFaults,
         clicks' \in 0..MaxClicks, clicks' \in Nat, clicks <= clicks'
  PROVE  IInv'
<1> USE DEF IInv
<1>1. ServerOK'
  BY DEF Refresh, ServerOK, serverVars
<1>2. HistOK'
  <2>1. UNCHANGED <<histOffset, histTotal, filter, bar, histBody>>
    BY DEF Refresh
  <2>2. histOffset' \in {i * HIST_LIMIT : i \in 0..clicks'}
    BY <2>1, SameOffset
  <2>3. /\ histCalls' \in [Slots -> HistCalls \union {None}]
        /\ \A k \in Slots : At(k, "drawn")' =>
             histCalls'[k].pager \in Pagers /\ histCalls'[k].pager.total = histCalls'[k].total
    <3>1. CASE Loads(tab)
      <4>1. LoadHist(histOffset, filter) /\ filter \in Filters
        BY <3>1 DEF Refresh, HistOK
      <4> QED
        BY <4>1, Offsets, NewLoad
    <3>2. CASE ~Loads(tab)
      <4>1. histCalls' = histCalls
        BY <3>2 DEF Refresh
      <4> QED
        BY <4>1 DEF HistOK, At
    <3> QED
      BY <3>1, <3>2
  <2> QED
    BY <2>1, <2>2, <2>3 DEF HistOK
<1>3. ApiOK'
  <2>1. UNCHANGED <<served, openapi, header, tabVars>>
    BY DEF Refresh, serverVars
  <2>2. specCalls' \subseteq {"header", "tab"} /\ \A spec \in drawing' : spec \subseteq served
    BY DEF Refresh, LoadApi, ApiOK
  <2> QED
    BY <2>1, <2>2 DEF ApiOK, tabVars
<1>4. ConsoleOK'
  BY SameConsole DEF Refresh
<1>5. TimelineOK'
  BY DEF Refresh, TimelineOK
<1> QED
  BY <1>1, <1>2, <1>3, <1>4, <1>5

LEMMA OpenTabStep == ASSUME IInv, NEW tab \in Tabs, OpenTab(tab) PROVE IInv'
<1>1. /\ clicks' \in Nat /\ clicks <= clicks'
      /\ clicks' \in 0..MaxClicks /\ faults' \in 0..MaxFaults
  BY ClickCounts DEF OpenTab, IInv
<1> QED
  BY <1>1, RefreshStep DEF OpenTab

LEMMA TickStep == ASSUME IInv, Tick PROVE IInv'
<1>1. /\ clicks' \in Nat /\ clicks <= clicks'
      /\ clicks' \in 0..MaxClicks /\ faults' \in 0..MaxFaults /\ active \in Tabs
  BY NoClick DEF Tick, counts, IInv, ServerOK
<1> QED
  BY <1>1, RefreshStep DEF Tick

LEMMA RowsChangeStep == ASSUME IInv, RowsChange PROVE IInv'
<1> USE DEF IInv
<1>1. /\ clicks' \in Nat /\ clicks <= clicks'
      /\ clicks' \in 0..MaxClicks /\ faults' \in 0..MaxFaults
  BY NoClick, FaultCounts DEF RowsChange
<1>2. ServerOK'
  <2>1. PICK f \in Filters, d \in {-1, 1} : rows[f] + d >= 0 /\ rows' = [rows EXCEPT ![f] = @ + d]
    BY DEF RowsChange
  <2>2. rows' \in [Filters -> Nat]
    BY <2>1 DEF ServerOK
  <2> QED
    BY <1>1, <2>2 DEF RowsChange, ServerOK
<1>3. HistOK'
  BY <1>1, SameHist DEF RowsChange, histVars
<1>4. ApiOK'
  BY SameApi DEF RowsChange
<1>5. ConsoleOK'
  BY SameConsole DEF RowsChange
<1>6. TimelineOK'
  BY DEF RowsChange, TimelineOK
<1> QED
  BY <1>2, <1>3, <1>4, <1>5, <1>6

-----------------------------------------------------------------------------
(***************************************************************************)
(* The theorems.                                                           *)
(***************************************************************************)

LEMMA InitIInv == ASSUME Init PROVE IInv
<1>1. ServerOK
  BY PageAssumption, BoundsAssumption DEF Init, ServerOK, Tabs
<1>2. HistOK
  <2>1. histOffset \in {i * HIST_LIMIT : i \in 0..clicks}
    <3>1. 0 \in 0..clicks /\ histOffset = 0 * HIST_LIMIT
      BY PageAssumption DEF Init
    <3> QED
      BY <3>1
  <2> QED
    BY <2>1, PageAssumption DEF Init, HistOK, At
<1>3. ApiOK
  BY DEF Init, ApiOK, Labels
<1>4. ConsoleOK /\ TimelineOK
  BY DEF Init, ConsoleOK, TimelineOK
<1> QED
  BY <1>1, <1>2, <1>3, <1>4 DEF IInv

LEMMA StutterStep == ASSUME IInv, UNCHANGED vars PROVE IInv'
<1> USE DEF IInv
<1>1. /\ clicks' \in Nat /\ clicks <= clicks'
      /\ clicks' \in 0..MaxClicks /\ faults' \in 0..MaxFaults
  BY NoClick DEF vars, counts, ServerOK
<1>2. ServerOK'
  BY <1>1, SameServer DEF vars
<1>3. HistOK'
  BY <1>1, SameHist DEF vars
<1>4. ApiOK'
  BY SameApi DEF vars, serverVars
<1>5. ConsoleOK' /\ TimelineOK'
  BY SameConsole DEF vars, TimelineOK
<1> QED
  BY <1>2, <1>3, <1>4, <1>5

LEMMA UserStep == ASSUME IInv, User PROVE IInv'
<1>1. CASE HistPrev
  BY <1>1, HistPrevStep
<1>2. CASE HistNext
  BY <1>2, HistNextStep
<1>3. CASE HistSearch
  BY <1>3, FirstPageStep DEF HistSearch
<1>4. CASE HistReset
  BY <1>4, FirstPageStep, PageAssumption DEF HistReset
<1>5. CASE HistType
  BY <1>5, HistTypeStep
<1>6. CASE CopyText
  BY <1>6, CopyTextStep
<1>7. CASE ShowPhases
  BY <1>7, ShowPhasesStep
<1>8. CASE ClosePhases
  BY <1>8, ClosePhasesStep
<1>9. ASSUME NEW q \in Queries, RunDatasourceQuery(q) PROVE IInv'
  BY <1>9, RunDatasourceQueryStep
<1>10. ASSUME NEW tab \in Tabs, OpenTab(tab) PROVE IInv'
  BY <1>10, OpenTabStep
<1> QED
  BY <1>1, <1>2, <1>3, <1>4, <1>5, <1>6, <1>7, <1>8, <1>9, <1>10 DEF User

LEMMA NextStep == ASSUME IInv, [Next]_vars PROVE IInv'
<1>1. CASE User
  BY <1>1, UserStep
<1>2. CASE TimerFires
  BY <1>2, TimerFiresStep
<1>3. CASE Tick
  BY <1>3, TickStep
<1>4. CASE RowsChange
  BY <1>4, RowsChangeStep
<1>5. ASSUME NEW k \in Slots, HistGoesOn(k) \/ HistFails(k) PROVE IInv'
  BY <1>5, HistServedStep, HistDrawnStep, HistShownStep, HistFailsStep DEF HistGoesOn
<1>6. ASSUME NEW who \in {"header", "tab"}, SpecArrives(who) \/ SpecFails(who) PROVE IInv'
  BY <1>6, SpecArrivesStep, SpecFailsStep
<1>7. ASSUME NEW q \in Queries, DsAnswered(q) \/ DsFails(q) PROVE IInv'
  BY <1>7, DsAnsweredStep, DsFailsStep
<1>8. ASSUME NEW spec \in SUBSET OpsLinks, ApiDrawn(spec) PROVE IInv'
  BY <1>8, ApiDrawnStep
<1>9. CASE UNCHANGED vars
  BY <1>9, StutterStep
<1> QED
  BY <1>1, <1>2, <1>3, <1>4, <1>5, <1>6, <1>7, <1>8, <1>9 DEF Next

\* The invariant, for every size of the history and of its pages.
THEOREM Invariance == Spec => []IInv
<1>1. Init => IInv
  BY InitIInv
<1>2. IInv /\ [Next]_vars => IInv'
  BY NextStep
<1> QED
  BY <1>1, <1>2, PTL DEF Spec

\* Every variable of the page keeps its type; the offset is a multiple of the page's size,
\* however clicks and answers meet (dashboard-common.js).
THEOREM Types == Spec => []TypeOK
<1>1. IInv => TypeOK
  <2> SUFFICES ASSUME IInv PROVE TypeOK
    OBVIOUS
  <2>1. openapi \in (SUBSET OpsLinks) \union {None} /\ drawing \subseteq SUBSET OpsLinks
    BY DEF IInv, ServerOK, ApiOK
  <2>2. /\ header \in (SUBSET (DocLinks \union OpsLinks)) \union {None}
        /\ links \in (SUBSET (DocLinks \union OpsLinks)) \union {None}
    <3>1. served \subseteq OpsLinks
      BY DEF IInv, ServerOK
    <3>2. \A x : x = None \/ x \subseteq DocLinks \union served
                 => x \in (SUBSET (DocLinks \union OpsLinks)) \union {None}
      BY <3>1, Zenon
    <3> QED
      BY <3>2 DEF IInv, ApiOK
  <2>3. timeline \in Seq(TimelineRows) \union {None}
    BY Rendered DEF IInv, TimelineOK
  <2> QED
    BY <2>1, <2>2, <2>3 DEF IInv, ServerOK, HistOK, ApiOK, ConsoleOK, TypeOK
<1> QED
  BY <1>1, Invariance, PTL

\* The pager under a table is that of the table's answer (loadHist, pagerHtml).
THEOREM PagersFit == Spec => []PagerOfItsAnswer
<1>1. IInv => PagerOfItsAnswer
  BY DEF IInv, HistOK, PagerOfItsAnswer
<1> QED
  BY <1>1, Invariance, PTL

\* "Running" is shown only while a query runs (runDatasourceQuery).
THEOREM RunningShown == Spec => []RunningIsTrue
<1>1. IInv => RunningIsTrue
  BY DEF IInv, ConsoleOK, RunningIsTrue
<1> QED
  BY <1>1, Invariance, PTL

\* All links that are shown lead somewhere (apiQuickLinks, initHeaderLinks).
THEOREM LinksLead == Spec => []NoDeadLink
<1>1. IInv => NoDeadLink
  BY DEF IInv, ApiOK, NoDeadLink
<1> QED
  BY <1>1, Invariance, PTL

\* The bars of the timeline compare its two phases, whatever these have lasted, however far the
\* browser's clock is behind and however much it moves on between the scale and a bar
\* (renderPhases, phaseMs).
THEOREM BarsCompareTheirPhases == Spec => []BarsCompare
<1>1. IInv => BarsCompare
  <2> SUFFICES ASSUME IInv, timeline # None PROVE BarsCompare
    BY DEF BarsCompare
  <2>1. PICK s \in Phases, t \in Phases : timeline = RenderPhases(<<s, t>>)
    BY DEF IInv, TimelineOK
  <2>2. Compares(RenderPhases(<<s, t>>))
    BY ONLY s \in Phases, t \in Phases, Rendered, Zenon
  <2>3. Compares(timeline)
    BY ONLY <2>1, <2>2
  <2> QED
    BY ONLY <2>3, SMTT(60) DEF BarsCompare, Compares
<1> QED
  BY <1>1, Invariance, PTL

=============================================================================
