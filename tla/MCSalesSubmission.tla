------------------------- MODULE MCSalesSubmission -------------------------
(***************************************************************************)
(* Instances of SalesSubmission for TLC: two suppliers that may both list  *)
(* the same vehicle.                                                       *)
(***************************************************************************)
EXTENDS SalesSubmission, TLC

CONSTANTS acme, volt,      \* suppliers
          s1, s2,          \* submissions
          v1, v2,          \* VINs
          a23              \* class A credits of model year 2023

EachItsOwn == (s1 :> acme) @@ (s2 :> volt)
AllOfAcme == [s \in Submissions |-> acme]

\* Different values, so that a sum tells which records it is of.
OneAndTwo == (v1 :> (a23 :> 1)) @@ (v2 :> (a23 :> 2))
OneEach == v1 :> (a23 :> 1)
=============================================================================
