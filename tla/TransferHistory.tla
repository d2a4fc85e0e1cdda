-------------------------- MODULE TransferHistory --------------------------
(***************************************************************************)
(* What the pages tell of a credit transfer besides its status: who signed *)
(* it, by the rows of credit_transfer_history; whose turn it is, by the    *)
(* dashboard, the list that its banners lead to and the page that a row of *)
(* the list opens.                                                         *)
(*                                                                         *)
(* Every request adds a history row.  The page looks for the newest row of *)
(* three kinds, so only their order is kept.                               *)
(***************************************************************************)
EXTENDS CreditTransfer

\* [Transfers -> sets of pairs of kinds]: <<k, l>> when there are rows of both kinds
\* and the newest one of kind k is no older than the newest one of kind l.
VARIABLE newest

historyVars == <<vars, newest>>

\* The kind of the row that a request adds; "APPROVED" is also what the government
\* saves with a comment or when the director returns a notice.
KindOfRow(j) ==
    CASE j.status \in {"RESCINDED", "RESCIND_PRE_APPROVAL"} -> "rescinded"
      [] j.status = "SUBMITTED" -> "submitted"
      [] j.status = "APPROVED" /\ j.signer # {} -> "accepted"
      [] OTHER -> "other"

\* A row is newer than all others, and the newest of its kind from now on.
AddRow(j) ==
    LET k == KindOfRow(j)
        others == {p \in newest[j.transfer] : p[1] # k /\ p[2] # k}
    IN  newest' = IF k = "other" THEN newest
                  ELSE [newest EXCEPT ![j.transfer] =
                           others \cup {<<k, k>>} \cup {<<k, p[2]>> : p \in others}]

HistoryInit == Init /\ newest = [t \in Transfers |-> {}]

HistoryNext ==
    \E w \in Workers :
        \/ /\ \/ \E t \in Transfers : Receive(w, t)
              \/ Save(w)
              \/ Refuse(w)
           /\ UNCHANGED newest
        \/ Commit(w) /\ AddRow(job[w])

HistorySpec == HistoryInit /\ [][HistoryNext]_historyVars

-----------------------------------------------------------------------------
\* The signatures on the details page

Has(t, kind) == <<kind, kind>> \in newest[t]
Later(t, kind, other) == kind # other /\ <<kind, other>> \in newest[t]

ShowsSubmission(t) == Has(t, "submitted") /\ ~Later(t, "rescinded", "submitted")

\* Mutant: an acceptance is shown once there was one.
AnyAcceptance(t) == ShowsSubmission(t) /\ Has(t, "accepted")

ShowsAcceptance(t) ==
    /\ ShowsSubmission(t) /\ Has(t, "accepted")
    /\ ~(Has(t, "rescinded") /\ Later(t, "submitted", "accepted"))

\* Those who, as the page says, signed and submitted the notice.
SignaturesShown(t) ==
    {o \in Organizations : \/ o = transfer[t].debit_from /\ ShowsSubmission(t)
                           \/ o = transfer[t].credit_to /\ ShowsAcceptance(t)}

-----------------------------------------------------------------------------
\* The dashboard, the list and the pages

\* Statuses by the status that the dashboard counts them under: suppliers do not
\* see a recommendation.
CountedAs(by, status) ==
    IF by # Government /\ status \in Recommended THEN "SUBMITTED" ELSE status

\* The label of a row in the list; there suppliers see a recommendation as APPROVED.
Label(by, status) ==
    CASE status \in Recommended -> IF by = Government THEN status ELSE "submitted to government"
      [] status = "APPROVED" -> "submitted to government"
      [] status = "SUBMITTED" -> "submitted to transfer partner"
      [] status = "VALIDATED" -> "recorded"
      [] status = "REJECTED" -> "rejected by government"
      [] status = "DISAPPROVED" -> "rejected by transfer partner"
      [] status \in {"RESCINDED", "RESCIND_PRE_APPROVAL"} -> "rescinded"
      [] OTHER -> status

\* The banners of a supplier: the counted statuses and the labels that the link
\* filters the list by.
SupplierBanners ==
    { [counts |-> {"SUBMITTED"}, lists |-> {"submitted to transfer partner"}],
      [counts |-> {"APPROVED", "RECOMMEND_APPROVAL"}, lists |-> {"submitted to government"}],
      [counts |-> {"VALIDATED"}, lists |-> {"recorded"}],
      [counts |-> {"REJECTED"}, lists |-> {"rejected by government"}] }

\* Mutant: the director is only told of recommendations to approve.
BannersOfApprovals ==
    { [counts |-> {"APPROVED"}, lists |-> {"submitted to government"}],
      [counts |-> {"RECOMMEND_APPROVAL"}, lists |-> Recommended] }

\* Those of an analyst and of the director.
GovernmentBanners ==
    { [counts |-> {"APPROVED"}, lists |-> {"submitted to government"}],
      [counts |-> Recommended, lists |-> Recommended] }

\* A banner is there and its link leads to a list in which t is.
Reminded(by, t) ==
    /\ Visible(t, by)
    /\ \E banner \in IF by = Government THEN GovernmentBanners ELSE SupplierBanners :
           /\ CountedAs(by, transfer[t].status) \in banner.counts
           /\ Label(by, transfer[t].status) \in banner.lists

\* A row of the list opens the form for the seller, as long as it may edit.
OpensForm(t, by) == by = transfer[t].debit_from /\ transfer[t].status \in Editable

\* The form lets its user save, submit or delete what is filled in.
FormOffers(t, by, new) ==
    OpensForm(t, by) /\ Visible(t, by) /\ new \in {"DRAFT", "SUBMITTED", "DELETED"}

\* The details page asks by for a decision: rescinding and commenting are not asked for.
Asked(t, by) ==
    /\ Visible(t, by) /\ ~OpensForm(t, by)
    /\ \E new \in Statuses \ {"RESCINDED", transfer[t].status} :
           Offers(t, transfer[t].status, by, new)

-----------------------------------------------------------------------------
\* Properties for one worker and pages that show the stored status

\* "Signed and submitted by" is only shown for what was signed: after a notice is
\* rescinded, edited, submitted again or returned, the page names nobody whose
\* confirmation was of other content.
SignedAsShown ==
    \A t \in Transfers : \A o \in SignaturesShown(t) : signed[t][o] = content[t]

\* No notice is forgotten: until it is closed it is either its seller's to edit
\* or somebody is asked to decide, and the dashboard of each who is asked has a
\* banner that leads to it.
NoticeRemembered ==
    \A t \in Transfers : transfer[t].status \notin Closed \cup {Absent} =>
        /\ \E by \in Organizations \cup {Government} :
               Asked(t, by) \/ FormOffers(t, by, "DELETED")
        /\ \A by \in Organizations \cup {Government} : Asked(t, by) => Reminded(by, t)
=============================================================================
