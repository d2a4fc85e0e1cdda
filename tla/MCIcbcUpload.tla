---------------------------- MODULE MCIcbcUpload ----------------------------
(***************************************************************************)
(* Instances of IcbcUpload for TLC: two VINs and files that disagree about *)
(* them, or list only one.                                                 *)
(***************************************************************************)
EXTENDS IcbcUpload, TLC

CONSTANTS x1, x2,       \* VINs
          leaf, bolt    \* vehicles

Disagreeing == { (x1 :> leaf) @@ (x2 :> leaf), (x1 :> bolt) @@ (x2 :> bolt),
                 (x1 :> leaf) @@ (x2 :> NoVehicle) }
=============================================================================
