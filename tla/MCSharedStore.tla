---------------------------- MODULE MCSharedStore ----------------------------
EXTENDS SharedStore
CONSTANTS c1, c2, j1
MCCoordinators == {c1, c2}
MCJobs  == {j1}
=============================================================================
