---------------------------- MODULE MCDashboard ----------------------------
(* Two filters, of which one matches more rows than a page has. *)
EXTENDS Dashboard
CONSTANTS all, some, q1, q2
MCInitialRows == [f \in {all, some} |-> IF f = all THEN 3 ELSE 1]
Ended(d)        == [recorded |-> TRUE, forScale |-> d, forBar |-> d]
StillRuns(d, e) == [recorded |-> FALSE, forScale |-> d, forBar |-> e]
MCPhases ==
  {Ended(-1), Ended(1), Ended(300),
   StillRuns(-2, -1), StillRuns(-1, 1), StillRuns(1, 3), StillRuns(300, 301)}
=============================================================================
