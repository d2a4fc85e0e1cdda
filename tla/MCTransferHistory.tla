------------------------- MODULE MCTransferHistory -------------------------
(***************************************************************************)
(* An instance of TransferHistory for TLC: two suppliers and two keys, a   *)
(* notice of one row and a notice of two rows; the second row is what acme *)
(* can cover and volt, at first, cannot.                                   *)
(***************************************************************************)
EXTENDS TransferHistory, TLC

CONSTANTS acme, volt,      \* suppliers
          a23, b23         \* class A and class B credits of model year 2023

TwoKeyContents == { (a23 :> 1) @@ (b23 :> 0), (a23 :> 1) @@ (b23 :> 1) }
TwoKeyOpening == (acme :> ((a23 :> 2) @@ (b23 :> 1))) @@ (volt :> ((a23 :> 1) @@ (b23 :> 0)))

TransferSymmetry == Permutations(Transfers)
=============================================================================
