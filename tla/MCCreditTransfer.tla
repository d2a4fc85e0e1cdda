-------------------------- MODULE MCCreditTransfer --------------------------
(***************************************************************************)
(* Instances of CreditTransfer for TLC: two suppliers, a few keys.         *)
(***************************************************************************)
EXTENDS CreditTransfer, TLC

CONSTANTS acme, volt,      \* suppliers
          a23, b23         \* class A and class B credits of model year 2023

\* One key: two notices of the same amount compete for the same credits.
OneKeyContents == { a23 :> 1 }
OneKeyOpening == (acme :> (a23 :> 1)) @@ (volt :> (a23 :> 1))

\* Only acme has credits, enough for one of two notices.
SellerOpening == (acme :> (a23 :> 1)) @@ (volt :> (a23 :> 0))

WorkerSymmetry == Permutations(Workers)
NoticeSymmetry == Permutations(Transfers) \cup Permutations(Workers)

\* No action reads signed: states that differ only in it have the same successors.
Unsigned == <<transfer, content, credited, debited, linked, pages, job>>
=============================================================================
