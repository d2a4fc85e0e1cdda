----------------------------- MODULE MCVehicle -----------------------------
(***************************************************************************)
(* An instance of Vehicle for TLC.                                         *)
(***************************************************************************)
EXTENDS Vehicle, TLC

CONSTANTS v1, v2     \* models of one supplier

Hybrid(us06) ==
    [name |-> "coupe", zevType |-> "PHEV", range |-> 60, weight |-> 1800, us06 |-> us06]
Heavy == [name |-> "van", zevType |-> "BEV", range |-> 300, weight |-> 4600, us06 |-> FALSE]

MCEntries == {Hybrid(FALSE), Hybrid(TRUE), Heavy}

VehicleSymmetry == Permutations(Vehicles)
=============================================================================
