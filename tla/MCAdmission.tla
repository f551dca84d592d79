----------------------------- MODULE MCAdmission -----------------------------
(***************************************************************************)
(* Small instances of Admission.  Two of the requests carry the same       *)
(* Idempotency-Key, with different bodies or the same one; the others      *)
(* carry no key, so that three of four requests can become jobs.           *)
(***************************************************************************)
EXTENDS Admission

CONSTANTS r1, r2, r3, r4, k1, b1, b2

MCRequests3 == {r1, r2, r3}
MCRequests4 == {r1, r2, r3, r4}
MCKey       == [r \in Requests |-> IF r \in {r1, r2} THEN k1 ELSE NoKey]
MCNoKeys    == [r \in Requests |-> NoKey]
MCOneBody   == [r \in Requests |-> b1]
MCTwoBodies == [r \in Requests |-> IF r = r2 THEN b2 ELSE b1]
=============================================================================
