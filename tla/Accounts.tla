------------------------------ MODULE Accounts ------------------------------
(***************************************************************************)
(* Credit transfers and credit agreements on one credit_transaction table. *)
(* A worker serves one request at a time, of either kind.  Between the     *)
(* check of a transfer's balance and its commit an agreement may credit or *)
(* reduce the seller.                                                      *)
(***************************************************************************)
EXTENDS Integers

CONSTANTS
    Organizations, Keys, Workers, Opening, FreshPages,   \* of both
    Transfers, Contents, LedgerBound,                    \* of CreditTransfer
    Agreements, Adjustments, Types, SavesFinish,         \* of CreditAgreement
    UploadBound, PostingBound

NoContent == [k \in Keys |-> 0]

ASSUME AmountsAssumption ==
    /\ Contents \subseteq [Keys -> Nat] \ {NoContent}
    /\ Adjustments \subseteq [Keys -> Nat] \ {NoContent}
ASSUME OpeningAssumption == Opening \in [Organizations -> [Keys -> Nat]]
ASSUME TypesAssumption == Types # {}

VARIABLES
    credited, debited,                                   \* the shared table
    transfer, content, linked, signed, pages, job,       \* of CreditTransfer
    agreement, adjustment, posted, agreementPages,       \* of CreditAgreement
    uploading, agreementJob

transferVars == <<transfer, content, linked, signed, pages, job>>
agreementVars == <<agreement, adjustment, posted, agreementPages, uploading, agreementJob>>
vars == <<credited, debited, transferVars, agreementVars>>

T == INSTANCE CreditTransfer
A == INSTANCE CreditAgreement
         WITH Contents <- Adjustments, content <- adjustment, pages <- agreementPages,
              job <- agreementJob

Init == T!Init /\ A!Init

\* Worker w serves a request about a transfer.
Transferring(w) ==
    /\ agreementJob[w] = A!Idle
    /\ \/ \E t \in Transfers : T!Receive(w, t)
       \/ T!Save(w)
       \/ T!Refuse(w)
       \/ T!Commit(w)
    /\ UNCHANGED agreementVars

\* Worker w serves a request about an agreement.
Agreeing(w) ==
    /\ job[w] = T!Idle
    /\ \/ \E a \in Agreements : A!Receive(w, a)
       \/ A!Commit(w)
    /\ UNCHANGED transferVars

\* No worker is needed for a page to lose its files.
Losing ==
    /\ \E a \in Agreements : A!LoseFiles(a)
    /\ UNCHANGED transferVars

Next == Losing \/ \E w \in Workers : Transferring(w) \/ Agreeing(w)

Spec == Init /\ [][Next]_vars

-----------------------------------------------------------------------------
\* However often a notice is recorded, at once or again from an old page, it never
\* transfers more than its seller was ever credited, although an agreement may reduce
\* those credits between the check of the balance and the commit: the balance of a
\* supplier with one notice is below zero only by what agreements took.
NegativeOnlyByReductions ==
    \A t \in Transfers, k \in Keys :
        linked[t][k] <= credited[transfer[t].debit_from][k]
=============================================================================
