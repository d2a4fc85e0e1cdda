------------------------- MODULE MCCreditAgreement -------------------------
(***************************************************************************)
(* Instances of CreditAgreement for TLC.                                   *)
(***************************************************************************)
EXTENDS CreditAgreement, TLC

CONSTANTS acme, volt,      \* suppliers
          a23, b23         \* class A and class B credits of model year 2023

One == { a23 :> 1 }
TwoRows == { (a23 :> 1) @@ (b23 :> 0), (a23 :> 1) @@ (b23 :> 2) }

OneKeyOpening == [o \in Organizations |-> a23 :> 0]
TwoKeyOpening == [o \in Organizations |-> (a23 :> 1) @@ (b23 :> 0)]

AgreementSymmetry == Permutations(Agreements)
WorkerSymmetry == Permutations(Workers)
=============================================================================
