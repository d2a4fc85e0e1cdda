----------------------------- MODULE MCAccounts -----------------------------
(***************************************************************************)
(* Instances of Accounts for TLC: one key, one notice, one agreement.      *)
(***************************************************************************)
EXTENDS Accounts, TLC

CONSTANTS acme, volt,   \* suppliers
          a23           \* class A credits of model year 2023

One == { a23 :> 1 }
OneEach == [o \in Organizations |-> a23 :> 1]

AllSymmetry == Permutations(Workers) \cup Permutations(Organizations)

\* No action reads signed, and no property here does.
Unsigned == <<credited, debited, transfer, content, linked, pages, job, agreementVars>>
=============================================================================
