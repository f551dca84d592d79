---------------------------- MODULE MCBundleSync ----------------------------
(* Two executors; the third version cannot be imported on the second one, and the
   fourth one has a syntax error. *)
EXTENDS BundleSync
CONSTANTS e1, e2, v1, v2, v3, v4
MCExecutors == {e1, e2}
MCUnfit     == {<<e2, v3>>}
=============================================================================
