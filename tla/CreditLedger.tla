---------------------------- MODULE CreditLedger ----------------------------
(***************************************************************************)
(* What the credit_transaction table promises to everything that posts to  *)
(* it.  A document (a credit transfer, a sales submission, a credit        *)
(* agreement, ...) posts at most once.  A posting credits an organization, *)
(* moves credits the debited organization has from it to another, or, if   *)
(* it is an administrative reduction, debits an organization whether or    *)
(* not it has the credits.  Nothing else changes a balance.  This is the   *)
(* abstract specification that the detailed modules of the documents are   *)
(* shown to implement.                                                     *)
(***************************************************************************)
EXTENDS Integers

CONSTANTS
    Organizations,   \* the suppliers
    Keys,            \* (model year, credit class): what credits are counted by
    Documents,       \* everything that can post to the ledger
    Reducing,        \* the documents that may be administrative reductions
    Amounts,         \* what one posting can amount to, by key
    Opening          \* [Organizations -> [Keys -> Nat]]: credits already issued

VARIABLES
    credited,   \* [Organizations -> [Keys -> Nat]]: sum of the rows with credit_to
    debited,    \* [Organizations -> [Keys -> Nat]]: sum of the rows with debit_from
    posted      \* [Documents -> [Keys -> Nat]]: the rows linked to a document

vars == <<credited, debited, posted>>

NoAmount == [k \in Keys |-> 0]

Init ==
    /\ credited = Opening
    /\ debited = [o \in Organizations |-> NoAmount]
    /\ posted = [d \in Documents |-> NoAmount]

Plus(total, o, amount) == [total EXCEPT ![o] = [k \in Keys |-> @[k] + amount[k]]]

\* Document d moves amount from one organization to another, which may be
\* the same one.  The debited organization has it.
Move(d, from, to, amount) ==
    /\ posted[d] = NoAmount
    /\ \A k \in Keys : amount[k] <= credited[from][k] - debited[from][k]
    /\ credited' = Plus(credited, to, amount)
    /\ debited' = Plus(debited, from, amount)
    /\ posted' = [posted EXCEPT ![d] = amount]

\* Document d issues new credits to an organization.
Award(d, to, amount) ==
    /\ posted[d] = NoAmount
    /\ credited' = Plus(credited, to, amount)
    /\ posted' = [posted EXCEPT ![d] = amount]
    /\ UNCHANGED debited

\* Document d takes credits from an organization.
Reduce(d, from, amount) ==
    /\ d \in Reducing
    /\ posted[d] = NoAmount
    /\ debited' = Plus(debited, from, amount)
    /\ posted' = [posted EXCEPT ![d] = amount]
    /\ UNCHANGED credited

Next ==
    \E d \in Documents, to \in Organizations, amount \in Amounts :
        \/ Award(d, to, amount)
        \/ Reduce(d, to, amount)
        \/ \E from \in Organizations : Move(d, from, to, amount)

Spec == Init /\ [][Next]_vars
=============================================================================
