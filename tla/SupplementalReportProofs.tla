---------------------- MODULE SupplementalReportProofs ----------------------
(***************************************************************************)
(* What holds of supplemental reports, for any number of them: what the    *)
(* history records of them, and what issuing a single reassessment makes   *)
(* of the ledger; what the balance page shows; last in which order the     *)
(* history lets supplemental reports be written, so that an issued one     *)
(* stays issued, and which of them the links lead to last.                 *)
(***************************************************************************)
EXTENDS BalancePage, ModelYearReportProofs

-----------------------------------------------------------------------------
\* What issuing a reassessment leaves posted in one year and class

\* Where a class A reduction was a and is to be b, and an unspecified one was m and
\* is to be n, the adjusted transactions add up to b and n, although one may be
\* taken for the other.  A class A reduction that is no longer made would stay.
LEMMA CellSum ==
    ASSUME NEW r, NEW changes, NEW y, NEW c,
           NEW a \in Nat, NEW b \in Nat, NEW m \in Nat, NEW n \in Nat, a > 0 => b > 0,
           posted[r]["offset"][y][c] = 0, posted[r]["classA"][y][c] = a,
           posted[r]["unspecified"][y][c] = m, posted[r]["added"][y][c] = 0,
           \A u : u \in changes /\ u.year = y /\ u.class = c <=>
               \/ /\ u = [kind |-> "classA", year |-> y, class |-> c, old |-> a, new |-> b]
                  /\ b > 0 /\ a # b
               \/ /\ u = [kind |-> "unspecified", year |-> y, class |-> c, old |-> m, new |-> n]
                  /\ m # n,
           Found(r, {u \in changes : u.year = y /\ u.class = c /\ u.old # 0}) # {}
    PROVE  LET cell == AdjustedCell(r, changes, y, c)
           IN  cell["offset"] = 0 /\ cell["classA"] + cell["unspecified"] + cell["added"] = b + n
<1> DEFINE ca == [kind |-> "classA", year |-> y, class |-> c, old |-> a, new |-> b]
           un == [kind |-> "unspecified", year |-> y, class |-> c, old |-> m, new |-> n]
           here == {u \in changes : u.year = y /\ u.class = c}
           updates == {u \in here : u.old # 0}
           f == CHOOSE f \in Found(r, updates) : TRUE
           updated == [k \in Kinds |-> IF \E u \in updates : f[u] = k
                                       THEN (CHOOSE u \in updates : f[u] = k).new
                                       ELSE posted[r][k][y][c]]
           Room(u) == IF updated[u.kind] = 0 THEN u.kind ELSE "added"
           cell == AdjustedCell(r, changes, y, c)
<1>1. /\ ca.kind = "classA" /\ ca.old = a /\ ca.new = b
      /\ un.kind = "unspecified" /\ un.old = m /\ un.new = n /\ ca # un
    <2>1. ca.kind = "classA" /\ un.kind = "unspecified"
        OBVIOUS
    <2> QED
        BY <2>1
<1>2. /\ here \subseteq {ca, un}
      /\ ca \in here <=> b > 0 /\ a # b
      /\ un \in here <=> m # n
    OBVIOUS
<1>3. cell = [k \in Kinds |-> IF \E u \in here \ updates : Room(u) = k
                              THEN updated[k] + (CHOOSE u \in here \ updates : Room(u) = k).new
                              ELSE updated[k]]
    BY DEF AdjustedCell
<1>4. f \in Found(r, updates)
    <2>1. updates = {u \in changes : u.year = y /\ u.class = c /\ u.old # 0}
        OBVIOUS
    <2> HIDE DEF updates
    <2> QED
        BY <2>1
<1>5. /\ f \in [updates -> Kinds]
      /\ \A u \in updates : posted[r][f[u]][y][c] = u.old
      /\ \A u, v \in updates : u # v => f[u] # f[v]
    <2>1. \A u \in updates : u.year = y /\ u.class = c
        OBVIOUS
    <2> HIDE DEF updates, f
    <2> QED
        BY <1>4, <2>1 DEF Found
<1>6. /\ updates \subseteq {ca, un}
      /\ ca \in updates <=> a # 0 /\ a # b
      /\ un \in updates <=> m # 0 /\ m # n
    <2>1. \A u : u \in updates <=> u \in here /\ u.old # 0
        OBVIOUS
    <2> HIDE DEF ca, un, here, updates
    <2> QED
        BY <1>1, <1>2, <2>1
<1> HIDE DEF f, ca, un
<1>7. \A k \in Kinds, u \in updates : f[u] = k => (CHOOSE v \in updates : f[v] = k) = u
    <2> HIDE DEF updates
    <2> QED
        BY <1>5
<1>8. \A k \in Kinds : updated[k] = IF \E u \in updates : f[u] = k
                                    THEN (CHOOSE u \in updates : f[u] = k).new
                                    ELSE posted[r][k][y][c]
    OBVIOUS
<1> HIDE DEF updated, updates, here
<1>9. \A u \in updates : f[u] \in Kinds /\ updated[f[u]] = u.new
    BY <1>5, <1>7, <1>8
<1>10. \A k \in Kinds : (\A u \in updates : f[u] # k) => updated[k] = posted[r][k][y][c]
    BY <1>8
<1>11. /\ ca \in updates => f[ca] = "classA" \/ (f[ca] = "unspecified" /\ m = a)
       /\ un \in updates => f[un] = "unspecified" \/ (f[un] = "classA" /\ m = a)
    <2>1. \A u \in updates : u.old # 0 => f[u] \in {"classA", "unspecified"}
        BY <1>5 DEF Kinds
    <2> QED
        BY <1>1, <1>5, <1>6, <2>1
<1>12. {"classA", "unspecified", "added"} \subseteq Kinds
    BY DEF Kinds
<1>13. /\ updated["added"] = 0
       /\ a = 0 => updated["classA"] = 0
       /\ m = 0 => updated["unspecified"] = 0
       /\ updated["classA"] \in Nat /\ updated["unspecified"] \in Nat
       /\ updated["classA"] + updated["unspecified"]
          = (IF ca \in updates THEN b ELSE a) + (IF un \in updates THEN n ELSE m)
    <2>1. updated["added"] = 0
        <3>1. \A u \in updates : f[u] # "added"
            BY <1>6, <1>11
        <3> QED
            BY <1>10, <1>12, <3>1
    <2>2. CASE ca \in updates /\ un \in updates
        <3>1. f[ca] # f[un]
            BY <1>1, <1>5, <2>2
        <3>2. updated[f[ca]] = b /\ updated[f[un]] = n
            BY <1>1, <1>9, <2>2
        <3> QED
            BY <1>6, <1>11, <2>1, <2>2, <3>1, <3>2
    <2>3. CASE ca \in updates /\ un \notin updates
        <3>1. updated[f[ca]] = b
            BY <1>1, <1>9, <2>3
        <3>2. \A k \in Kinds : k # f[ca] => updated[k] = posted[r][k][y][c]
            BY <1>6, <1>10, <2>3
        <3> QED
            BY <1>6, <1>11, <1>12, <2>1, <2>3, <3>1, <3>2
    <2>4. CASE ca \notin updates /\ un \in updates
        <3>1. updated[f[un]] = n
            BY <1>1, <1>9, <2>4
        <3>2. \A k \in Kinds : k # f[un] => updated[k] = posted[r][k][y][c]
            BY <1>6, <1>10, <2>4
        <3> QED
            BY <1>6, <1>11, <1>12, <2>1, <2>4, <3>1, <3>2
    <2>5. CASE ca \notin updates /\ un \notin updates
        <3>1. updates = {}
            BY <1>6, <2>5
        <3> QED
            BY <1>10, <1>12, <2>1, <2>5, <3>1
    <2> QED
        BY <2>2, <2>3, <2>4, <2>5
<1> DEFINE inserted == here \ updates
<1>14. /\ inserted \subseteq {ca, un}
       /\ ca \in inserted <=> a = 0 /\ b > 0
       /\ un \in inserted <=> m = 0 /\ n > 0
    BY <1>2, <1>6
<1>15. /\ ca \in inserted => Room(ca) = "classA"
       /\ un \in inserted => Room(un) = "unspecified"
    BY <1>1, <1>13, <1>14
<1>16. \A k \in Kinds : cell[k] = IF \E u \in inserted : Room(u) = k
                                  THEN updated[k] + (CHOOSE u \in inserted : Room(u) = k).new
                                  ELSE updated[k]
    BY <1>3
<1> HIDE DEF Room, inserted, cell
<1>17. \A u, v \in inserted : u # v => Room(u) # Room(v)
    BY <1>14, <1>15
<1>18. \A u \in inserted : (CHOOSE v \in inserted : Room(v) = Room(u)) = u
    BY <1>17
<1>19. /\ cell["classA"] = updated["classA"] + (IF ca \in inserted THEN b ELSE 0)
       /\ cell["unspecified"] = updated["unspecified"] + (IF un \in inserted THEN n ELSE 0)
       /\ cell["added"] = 0
    <2>1. cell["classA"] = updated["classA"] + (IF ca \in inserted THEN b ELSE 0)
        <3>1. CASE ca \in inserted
            <4>1. (CHOOSE v \in inserted : Room(v) = "classA") = ca
                BY <1>15, <1>18, <3>1
            <4> QED
                BY <1>1, <1>12, <1>15, <1>16, <3>1, <4>1
        <3>2. CASE ca \notin inserted
            <4>1. \A u \in inserted : Room(u) # "classA"
                BY <1>14, <1>15, <3>2
            <4> QED
                BY <1>12, <1>13, <1>16, <3>2, <4>1
        <3> QED
            BY <3>1, <3>2
    <2>2. cell["unspecified"] = updated["unspecified"] + (IF un \in inserted THEN n ELSE 0)
        <3>1. CASE un \in inserted
            <4>1. (CHOOSE v \in inserted : Room(v) = "unspecified") = un
                BY <1>15, <1>18, <3>1
            <4> QED
                BY <1>1, <1>12, <1>15, <1>16, <3>1, <4>1
        <3>2. CASE un \notin inserted
            <4>1. \A u \in inserted : Room(u) # "unspecified"
                BY <1>14, <1>15, <3>2
            <4> QED
                BY <1>12, <1>13, <1>16, <3>2, <4>1
        <3> QED
            BY <3>1, <3>2
    <2>3. cell["added"] = 0
        <3>1. \A u \in inserted : Room(u) # "added"
            BY <1>14, <1>15
        <3> QED
            BY <1>12, <1>13, <1>16, <3>1
    <2> QED
        BY <2>1, <2>2, <2>3
<1>20. cell["offset"] = 0
    <2>1. \A u \in updates : f[u] # "offset"
        BY <1>6, <1>11
    <2>2. \A u \in inserted : Room(u) # "offset"
        BY <1>14, <1>15
    <2>3. "offset" \in Kinds
        BY DEF Kinds
    <2> QED
        BY <1>10, <1>16, <2>1, <2>2, <2>3
<1>21. cell["classA"] + cell["unspecified"] + cell["added"] = b + n
    BY <1>6, <1>13, <1>14, <1>19
<1> QED
    BY <1>20, <1>21 DEF cell

-----------------------------------------------------------------------------
\* What a request writes, and for which report

\* What is saved of a correction: what is left when the sales given are those that
\* the report is reduced for.
Figures(r, sales, given) ==
    /\ sales \in Nat \ {0}
    /\ given.ending = Reduction(r, NewBalances(RowsOfRecord(r).basis, given.before), sales).ending

\* A page of a supplemental report of r can be used.
Offered(r) ==
    \E u \in Of(r) :
        \/ SupplierOffers(u) \/ DirectorOffers(u)
        \/ /\ Listed(u, TRUE)
           /\ \E shown \in ActualStatus(u, TRUE) :
                 AnalystReturns(u, shown) \/ \E status : AnalystOffers(u, shown, status)

\* Only the director, on the page of a reassessment, sends that it is assessed.
ToIssue(r) == \E u \in Of(r) : DirectorOffers(u)
Issue(r, sales, given, changes) ==
    \E u \in Of(r) :
        /\ DirectorOffers(u) /\ sales = supps[u].sales /\ given = supps[u].rows
        /\ changes = ReassessmentReductions(r, given, sales)

\* A new supplemental report w is made.
Makes(w, r) ==
    /\ ~Made(w) /\ UNCHANGED assessedVars
    /\ \A t \in Supps : t < w => Made(t)
    /\ \E gov \in BOOLEAN, status \in SentStatuses : \E sales, given :
          /\ supps' = [supps EXCEPT ![w] =
                [report |-> r, gov |-> gov, status |-> status, link |-> LatestFor(r, gov),
                 sales |-> sales, rows |-> given]]
          /\ log' = Append(log, Entry(w, status, gov))
          /\ Figures(r, sales, given)
          /\ status = "ASSESSED" => gov /\ ToIssue(r)

\* What is there of w, which is the latest, is written again.
Writes(w, r) ==
    \E gov \in BOOLEAN, status \in SentStatuses : \E sales, given, changes :
        /\ SaveLatest(w, r, gov, status, sales, given)
        /\ Figures(r, sales, given) /\ w = LatestFor(r, gov)
        /\ IF status = "ASSESSED"
           THEN /\ gov /\ supps[w].gov /\ Issue(r, sales, given, changes)
                /\ AdjustCreditsReassessment(w, changes)
           ELSE UNCHANGED assessedVars

Removes(w) == RemoveLatest(w) /\ UNCHANGED assessedVars

Requests(r) ==
    \E w \in Supps : \/ Makes(w, r)
                     \/ w \in Of(r) /\ Offered(r) /\ (Writes(w, r) \/ Removes(w))

Figured == \A s \in Supps : Made(s) => Figures(supps[s].report, supps[s].sales, supps[s].rows)

\* The rows of a page are figured for the sales it gives.
LEMMA ActivityFigured ==
    ASSUME NEW r, NEW given, NEW sales \in Nat \ {0}
    PROVE  Figures(r, sales, ActivityRows(r, given, sales))
<1> DEFINE basis == RowsOfRecord(r).basis
           now == Reduction(r, NewBalances(basis, given.before), Corrected(r, sales))
           page == ActivityRows(r, given, sales)
<1>1. page.ending = now.ending /\ page.before = given.before
    BY DEF ActivityRows
<1>2. Corrected(r, sales) = sales
    BY DEF Corrected
<1> HIDE DEF page
<1>3. page.ending = Reduction(r, NewBalances(basis, page.before), sales).ending
    BY <1>1, <1>2
<1>4. Figures(r, sales, page)
    BY <1>3 DEF Figures
<1> QED
    BY <1>4 DEF page

\* Writing only a status is saving with the sales and the rows that are there.
LEMMA StatusIsSaved ==
    ASSUME SuppsShape, NEW s \in Supps, NEW r, NEW gov, NEW status \in SentStatuses \ {"SUBMITTED"},
           supps' = [supps EXCEPT ![s].status = status], log' = Append(log, Entry(s, status, gov))
    PROVE  SaveLatest(s, r, gov, status, supps[s].sales, supps[s].rows)
<1> DEFINE new == [supps[s] EXCEPT !.status = status, !.sales = supps[s].sales, !.rows = supps[s].rows]
<1>1. IsSupp(supps[s]) /\ status \in SuppStatuses
    BY Sent DEF SuppsShape
<1>2. new = [supps[s] EXCEPT !.status = status]
    BY <1>1, Rewritten, Ended
<1> HIDE DEF new
<1>3. supps' = [t \in Supps |-> IF t = s THEN new ELSE supps[t]]
    BY <1>2 DEF SuppsShape, IsFunctionOn
<1> QED
    BY <1>3 DEF SaveLatest, new

\* What a request that saves a supplemental report does is one of the three.
LEMMA SaveIsRequest ==
    ASSUME SuppsShape, Figured, NEW r \in Reports, Offered(r), NEW gov \in BOOLEAN,
           NEW status \in SentStatuses, NEW sales, NEW given, NEW changes,
           Figures(r, sales, given), status = "ASSESSED" => gov /\ Issue(r, sales, given, changes),
           SupplementalSave(r, gov, status, sales, given, changes)
    PROVE  Requests(r)
<1> DEFINE latest == LatestFor(r, gov)
           again == latest # 0 /\ status = "RETURNED" /\ NewestStatus(latest) = "RETURNED"
           own == latest # 0 /\ supps[latest].gov = gov
<1>1. latest # 0 => latest \in Of(r) /\ latest \in Supps /\ Made(latest) /\ supps[latest].report = r
    BY LatestIsOf, OfIsMade
<1>2. \/ /\ again
         /\ supps' = [supps EXCEPT ![latest].status = "RETURNED"]
         /\ log' = Append(log, Entry(latest, "RETURNED", gov)) /\ UNCHANGED assessedVars
      \/ own /\ RemoveLatest(latest) /\ UNCHANGED assessedVars
      \/ /\ own /\ SaveLatest(latest, r, gov, status, sales, given)
         /\ IF Adjusts(status) THEN AdjustCreditsReassessment(latest, changes) ELSE UNCHANGED assessedVars
      \/ MakeNew(r, gov, status, sales, given) /\ UNCHANGED assessedVars
    BY DEF SupplementalSave
<1> HIDE DEF latest
<1>3. CASE /\ again
           /\ supps' = [supps EXCEPT ![latest].status = "RETURNED"]
           /\ log' = Append(log, Entry(latest, "RETURNED", gov)) /\ UNCHANGED assessedVars
    <2>1. SaveLatest(latest, r, gov, "RETURNED", supps[latest].sales, supps[latest].rows)
        BY <1>1, <1>3, StatusIsSaved
    <2>2. Figures(r, supps[latest].sales, supps[latest].rows)
        BY <1>1, <1>3 DEF Figured
    <2>3. latest = LatestFor(r, gov)
        BY DEF latest
    <2>4. Writes(latest, r)
        BY <1>3, <2>1, <2>2, <2>3 DEF Writes
    <2> QED
        BY <1>1, <1>3, <2>4 DEF Requests
<1>4. CASE own /\ RemoveLatest(latest) /\ UNCHANGED assessedVars
    BY <1>1, <1>4 DEF Requests, Removes
<1>5. CASE /\ own /\ SaveLatest(latest, r, gov, status, sales, given)
           /\ IF Adjusts(status) THEN AdjustCreditsReassessment(latest, changes) ELSE UNCHANGED assessedVars
    <2>1. latest = LatestFor(r, gov)
        BY DEF latest
    <2>2. IF status = "ASSESSED"
          THEN /\ gov /\ supps[latest].gov /\ Issue(r, sales, given, changes)
               /\ AdjustCreditsReassessment(latest, changes)
          ELSE UNCHANGED assessedVars
        BY <1>5 DEF Adjusts
    <2>3. Writes(latest, r)
        BY <1>5, <2>1, <2>2 DEF Writes
    <2> QED
        BY <1>1, <1>5, <2>3 DEF Requests
<1>6. CASE MakeNew(r, gov, status, sales, given) /\ UNCHANGED assessedVars
    <2>1. PICK w \in Supps : /\ ~Made(w) /\ \A t \in Supps : t < w => Made(t)
                             /\ supps' = [supps EXCEPT ![w] =
                                   [report |-> r, gov |-> gov, status |-> status,
                                    link |-> LatestFor(r, gov), sales |-> sales, rows |-> given]]
                             /\ log' = Append(log, Entry(w, status, gov))
        BY <1>6 DEF MakeNew, Made
    <2>2. status = "ASSESSED" => gov /\ ToIssue(r)
        BY DEF Issue, ToIssue
    <2>3. Makes(w, r)
        BY <1>6, <2>1, <2>2 DEF Makes
    <2> QED
        BY <2>3 DEF Requests
<1> QED
    BY <1>2, <1>3, <1>4, <1>5, <1>6

\* The analyst's page never sends that a supplemental report is assessed.
LEMMA AnalystSends ==
    ASSUME NEW s \in Supps, Listed(s, TRUE), NEW shown \in ActualStatus(s, TRUE),
           AnalystOffers(s, shown, shown)
    PROVE  shown # "ASSESSED"
<1> SUFFICES ASSUME shown = "ASSESSED" PROVE FALSE
    OBVIOUS
<1>1. supps[s].status \in {"DRAFT", "RETURNED"}
    BY DEF AnalystOffers, AnalystMayEdit
<1>2. supps[s].gov
    BY <1>1 DEF Listed
<1>3. shown = supps[s].status
    BY <1>2 DEF ActualStatus
<1> QED
    BY <1>1, <1>3

LEMMA StepRequests ==
    ASSUME Shape, Figured, SupplementalStep
    PROVE  \E r \in Reports : Assessed(r) /\ Requests(r)
<1>1. SuppsShape
    BY DEF Shape
<1>2. \A s \in Supps : Made(s) => /\ supps[s].report \in Reports /\ Assessed(supps[s].report)
                                  /\ supps[s].sales \in Nat \ {0}
    BY DEF Shape, OfAssessed, Made, Figured, Figures
<1>3. {"DRAFT", "SUBMITTED", "RETURNED", "RECOMMENDED", "ASSESSED", "DELETED"} \subseteq SentStatuses
    BY DEF SentStatuses, Statuses
<1>4. LdvSales \subseteq Nat \ {0}
    BY LdvSalesAssumption
<1>5. \A s : Listed(s, TRUE) \/ Listed(s, FALSE) => s \in Of(supps[s].report)
    BY DEF Listed
<1>6. ASSUME NEW r \in Existing, NEW gov \in BOOLEAN, NEW sales \in LdvSales,
             CreateSupplemental(r, gov, sales)
      PROVE  \E q \in Reports : Assessed(q) /\ Requests(q)
    <2>1. r \in Reports /\ Assessed(r)
        BY <1>6 DEF Existing, CreateSupplemental, Assessed
    <2>2. PICK given : MakeNew(r, gov, "DRAFT", sales, ActivityRows(r, given, sales))
        BY <1>6 DEF CreateSupplemental
    <2>3. UNCHANGED assessedVars
        BY <1>6 DEF CreateSupplemental
    <2>4. Figures(r, sales, ActivityRows(r, given, sales))
        BY <1>4, ActivityFigured
    <2> DEFINE saved == ActivityRows(r, given, sales)
    <2> HIDE DEF saved
    <2>5. PICK w \in Supps : /\ ~Made(w) /\ \A t \in Supps : t < w => Made(t)
                             /\ supps' = [supps EXCEPT ![w] =
                                   [report |-> r, gov |-> gov, status |-> "DRAFT",
                                    link |-> LatestFor(r, gov), sales |-> sales, rows |-> saved]]
                             /\ log' = Append(log, Entry(w, "DRAFT", gov))
        BY <2>2 DEF MakeNew, Made, saved
    <2>6. Makes(w, r)
        BY <1>3, <2>3, <2>4, <2>5 DEF Makes, saved
    <2> QED
        BY <2>1, <2>6 DEF Requests
<1>7. ASSUME NEW s \in Supps, Made(s), SupplierOffers(s), NEW status \in {"DRAFT", "SUBMITTED", "DELETED"},
             NEW sales \in LdvSales \union {supps[s].sales}, SupplierEdits(s, status, sales)
      PROVE  \E q \in Reports : Assessed(q) /\ Requests(q)
    <2> DEFINE r == supps[s].report
               given == ActivityRows(r, supps[s].rows, sales)
    <2>1. SupplementalSave(r, FALSE, status, sales, given, {})
        BY <1>7 DEF SupplierEdits
    <2>2. r \in Reports /\ Assessed(r) /\ sales \in Nat \ {0} /\ status \in SentStatuses
        BY <1>2, <1>3, <1>4, <1>7
    <2>3. Figures(r, sales, given)
        BY <2>2, ActivityFigured
    <2>4. Offered(r)
        BY <1>5, <1>7 DEF Offered, SupplierOffers
    <2> HIDE DEF given, r
    <2>5. Requests(r)
        BY <1>1, <1>7, <2>1, <2>2, <2>3, <2>4, SaveIsRequest
    <2> QED
        BY <2>2, <2>5
<1>8. ASSUME NEW s \in Supps, Made(s), Listed(s, TRUE), NEW shown \in ActualStatus(s, TRUE),
             NEW status \in {shown, "RECOMMENDED", "DELETED"},
             NEW sales \in LdvSales \union {supps[s].sales}, AnalystEdits(s, shown, status, sales)
      PROVE  \E q \in Reports : Assessed(q) /\ Requests(q)
    <2> DEFINE r == supps[s].report
               given == ActivityRows(r, supps[s].rows, sales)
    <2>1. SupplementalSave(r, TRUE, Requested(status, TRUE), sales, given, {})
        BY <1>8 DEF AnalystEdits
    <2>2. r \in Reports /\ Assessed(r) /\ sales \in Nat \ {0}
        BY <1>2, <1>4, <1>8
    <2>3. shown \in SentStatuses
        BY <1>8, ActualStatusMade
    <2>4. AnalystOffers(s, shown, status)
        BY <1>8 DEF AnalystEdits
    <2>5. status # "ASSESSED"
        BY <1>8, <2>4, AnalystSends
    <2>6. Requested(status, TRUE) \in SentStatuses \ {"ASSESSED"}
        BY <1>3, <1>8, <2>3, <2>5 DEF Requested
    <2>7. Figures(r, sales, given)
        BY <2>2, ActivityFigured
    <2>8. Offered(r)
        BY <1>5, <1>8, <2>4 DEF Offered
    <2> HIDE DEF given, r
    <2>9. Requests(r)
        BY <1>1, <2>1, <2>2, <2>6, <2>7, <2>8, SaveIsRequest
    <2> QED
        BY <2>2, <2>9
<1>9. ASSUME NEW s \in Supps, Made(s), Listed(s, TRUE), NEW shown \in ActualStatus(s, TRUE),
             ReturnSupplemental(s, shown)
      PROVE  \E q \in Reports : Assessed(q) /\ Requests(q)
    <2> DEFINE r == supps[s].report
               latest == LatestFor(r, TRUE)
    <2>1. r \in Reports /\ Assessed(r)
        BY <1>2, <1>9
    <2>2. Offered(r)
        <3>1. AnalystReturns(s, shown)
            BY <1>9 DEF ReturnSupplemental
        <3> QED
            BY <1>5, <1>9, <3>1 DEF Offered
    <2>3. CASE latest # 0 /\ supps[latest].status = "SUBMITTED"
        <3>1. latest \in Of(r) /\ latest \in Supps /\ Made(latest) /\ supps[latest].report = r
            BY <1>1, <2>3, LatestIsOf, OfIsMade
        <3>2. /\ supps' = [supps EXCEPT ![latest].status = "DRAFT"]
              /\ log' = Append(log, Entry(latest, "DRAFT", TRUE))
              /\ UNCHANGED assessedVars
            BY <1>9, <2>3 DEF ReturnSupplemental
        <3>3. Figures(r, supps[latest].sales, supps[latest].rows)
            BY <3>1 DEF Figured
        <3>4. latest = LatestFor(r, TRUE)
            OBVIOUS
        <3> HIDE DEF latest, r
        <3>5. SaveLatest(latest, r, TRUE, "DRAFT", supps[latest].sales, supps[latest].rows)
            BY <1>1, <1>3, <3>1, <3>2, StatusIsSaved
        <3>6. Writes(latest, r)
            BY <1>3, <3>2, <3>3, <3>4, <3>5 DEF Writes
        <3>7. Requests(r)
            BY <2>2, <3>1, <3>6 DEF Requests
        <3> QED
            BY <2>1, <3>7
    <2>4. CASE ~(latest # 0 /\ supps[latest].status = "SUBMITTED")
        <3>1. SupplementalSave(r, TRUE, "DRAFT", supps[s].sales, supps[s].rows, {})
            BY <1>9, <2>4 DEF ReturnSupplemental
        <3>2. Figures(r, supps[s].sales, supps[s].rows)
            BY <1>9 DEF Figured
        <3> HIDE DEF r, latest
        <3>3. Requests(r)
            BY <1>1, <1>3, <2>1, <2>2, <3>1, <3>2, SaveIsRequest
        <3> QED
            BY <2>1, <3>3
    <2> QED
        BY <2>3, <2>4
<1>10. ASSUME NEW s \in Supps, Made(s), DirectorOffers(s),
              NEW status \in {"RETURNED", "RECOMMENDED", "ASSESSED"}, DirectorDecides(s, status)
       PROVE  \E q \in Reports : Assessed(q) /\ Requests(q)
    <2> DEFINE r == supps[s].report
               changes == ReassessmentReductions(r, supps[s].rows, supps[s].sales)
    <2>1. SupplementalSave(r, TRUE, status, supps[s].sales, supps[s].rows, changes)
        BY <1>10 DEF DirectorDecides
    <2>2. r \in Reports /\ Assessed(r) /\ Figures(r, supps[s].sales, supps[s].rows)
        BY <1>2, <1>10 DEF Figured
    <2>3. s \in Of(r)
        BY <1>5, <1>10 DEF DirectorOffers
    <2>4. Offered(r)
        BY <1>10, <2>3 DEF Offered
    <2>5. Issue(r, supps[s].sales, supps[s].rows, changes)
        BY <1>10, <2>3 DEF Issue
    <2> HIDE DEF r, changes
    <2>6. Requests(r)
        BY <1>1, <1>3, <1>10, <2>1, <2>2, <2>4, <2>5, SaveIsRequest
    <2> QED
        BY <2>2, <2>6
<1> QED
    BY <1>6, <1>7, <1>8, <1>9, <1>10 DEF SupplementalStep, Made

\* What is on record of the supplemental reports: each is linked to an earlier one
\* or to none, they are made in the order of their keys, and the history says
\* which reassessments were issued.
History ==
    /\ \A s \in Supps : ~Made(s) => supps[s].report = 0 /\ supps[s].link = 0
    /\ \A s, t \in Supps : s < t /\ Made(t) => Made(s)
    /\ \A s \in Supps : supps[s].link # 0 =>
          supps[s].link \in Supps /\ Made(supps[s].link) /\ supps[s].link < s
    /\ \A s \in Supps : supps[s].status = "ASSESSED" =>
          supps[s].gov /\ \E i \in DOMAIN log : log[i] = Entry(s, "ASSESSED", TRUE)
    /\ \A i \in DOMAIN log : log[i].status = "ASSESSED" => log[i].gov /\ supps[log[i].supp].gov

\* A new supplemental report, and the others as they were.
LEMMA MakesIs ==
    ASSUME SuppsShape, NEW r, NEW w \in Supps, Makes(w, r)
    PROVE  \E gov, status, sales, given :
              /\ gov \in BOOLEAN /\ status \in SentStatuses
              /\ /\ supps'[w].report = r /\ supps'[w].gov = gov /\ supps'[w].status = status
                 /\ supps'[w].link = LatestFor(r, gov)
                 /\ supps'[w].sales = sales /\ supps'[w].rows = given
              /\ log' = Append(log, Entry(w, status, gov)) /\ Entry(w, status, gov) \in Entries
              /\ Figures(r, sales, given)
              /\ status = "ASSESSED" => gov /\ ToIssue(r)
              /\ \A t \in Supps \ {w} : supps'[t] = supps[t]
<1>1. PICK gov \in BOOLEAN, status \in SentStatuses : \E sales, given :
          /\ supps' = [supps EXCEPT ![w] =
                [report |-> r, gov |-> gov, status |-> status, link |-> LatestFor(r, gov),
                 sales |-> sales, rows |-> given]]
          /\ log' = Append(log, Entry(w, status, gov))
          /\ Figures(r, sales, given)
          /\ status = "ASSESSED" => gov /\ ToIssue(r)
    BY DEF Makes
<1>2. PICK sales, given :
          /\ supps' = [supps EXCEPT ![w] =
                [report |-> r, gov |-> gov, status |-> status, link |-> LatestFor(r, gov),
                 sales |-> sales, rows |-> given]]
          /\ log' = Append(log, Entry(w, status, gov))
          /\ Figures(r, sales, given)
          /\ status = "ASSESSED" => gov /\ ToIssue(r)
    BY <1>1
<1> DEFINE new == [report |-> r, gov |-> gov, status |-> status, link |-> LatestFor(r, gov),
                   sales |-> sales, rows |-> given]
<1>3. /\ new.report = r /\ new.gov = gov /\ new.status = status /\ new.link = LatestFor(r, gov)
      /\ new.sales = sales /\ new.rows = given
    OBVIOUS
<1>4. supps' = [supps EXCEPT ![w] = new]
    BY <1>2
<1> HIDE DEF new
<1>5. supps'[w] = new /\ \A t \in Supps \ {w} : supps'[t] = supps[t]
    BY <1>4 DEF SuppsShape, IsFunctionOn
<1>6. Entry(w, status, gov) \in Entries
    BY <1>1 DEF Entry, Entries
<1> QED
    BY <1>1, <1>2, <1>3, <1>5, <1>6

\* A supplemental report that is written again, and of the others the draft
\* reassessments that end.
LEMMA WritesIs ==
    ASSUME SuppsShape, NEW r, NEW w \in Of(r), Writes(w, r)
    PROVE  \E gov, status, sales, given, changes :
              /\ gov \in BOOLEAN /\ status \in SentStatuses
              /\ supps'[w] = [report |-> supps[w].report, gov |-> supps[w].gov, status |-> status,
                              link |-> supps[w].link, sales |-> sales, rows |-> given]
              /\ log' = Append(log, Entry(w, status, gov)) /\ Entry(w, status, gov) \in Entries
              /\ Figures(r, sales, given) /\ w = LatestFor(r, gov)
              /\ IF status = "ASSESSED"
                 THEN /\ gov /\ supps[w].gov /\ Issue(r, sales, given, changes)
                      /\ AdjustCreditsReassessment(w, changes)
                 ELSE UNCHANGED assessedVars
              /\ \A t \in Supps \ {w} :
                    \/ supps'[t] = supps[t]
                    \/ /\ status = "SUBMITTED" /\ t \in Of(r) /\ supps[t].gov /\ supps[t].status = "DRAFT"
                       /\ supps'[t] = [report |-> supps[t].report, gov |-> supps[t].gov,
                                       status |-> "DELETED", link |-> supps[t].link,
                                       sales |-> supps[t].sales, rows |-> supps[t].rows]
<1>1. PICK gov, status, sales, given, changes :
          /\ gov \in BOOLEAN /\ status \in SentStatuses
          /\ SaveLatest(w, r, gov, status, sales, given)
          /\ Figures(r, sales, given) /\ w = LatestFor(r, gov)
          /\ IF status = "ASSESSED"
             THEN /\ gov /\ supps[w].gov /\ Issue(r, sales, given, changes)
                  /\ AdjustCreditsReassessment(w, changes)
             ELSE UNCHANGED assessedVars
    BY DEF Writes
<1>2. w \in Supps /\ \A t \in Supps : IsSupp(supps[t])
    BY OfIsMade DEF SuppsShape
<1> DEFINE new == [supps[w] EXCEPT !.status = status, !.sales = sales, !.rows = given]
           ends(t) == t # w /\ status = "SUBMITTED" /\ t \in Of(r) /\ supps[t].gov /\ supps[t].status = "DRAFT"
           ended(t) == [supps[t] EXCEPT !.status = "DELETED"]
<1>3. new = [report |-> supps[w].report, gov |-> supps[w].gov, status |-> status,
             link |-> supps[w].link, sales |-> sales, rows |-> given]
    <2>1. status \in SuppStatuses /\ IsSupp(supps[w])
        BY <1>1, <1>2, Sent
    <2> QED
        BY <2>1, Rewritten
<1>4. \A t \in Supps : ended(t) = [report |-> supps[t].report, gov |-> supps[t].gov,
                                   status |-> "DELETED", link |-> supps[t].link,
                                   sales |-> supps[t].sales, rows |-> supps[t].rows]
    BY <1>2, Ended DEF SuppStatuses
<1>5. supps' = [t \in Supps |-> IF t = w THEN new ELSE IF ends(t) THEN ended(t) ELSE supps[t]]
    BY <1>1 DEF SaveLatest
<1> HIDE DEF new, ended
<1>6. \A t \in Supps : supps'[t] = IF t = w THEN new ELSE IF ends(t) THEN ended(t) ELSE supps[t]
    BY <1>5
<1>7. supps'[w] = new
    BY <1>2, <1>6
<1>8. \A t \in Supps \ {w} : supps'[t] = supps[t] \/ (ends(t) /\ supps'[t] = ended(t))
    BY <1>6
<1>9. log' = Append(log, Entry(w, status, gov)) /\ Entry(w, status, gov) \in Entries
    BY <1>1, <1>2 DEF SaveLatest, Entry, Entries
<1>10. \A t \in Supps \ {w} :
          \/ supps'[t] = supps[t]
          \/ /\ status = "SUBMITTED" /\ t \in Of(r) /\ supps[t].gov /\ supps[t].status = "DRAFT"
             /\ supps'[t] = [report |-> supps[t].report, gov |-> supps[t].gov,
                             status |-> "DELETED", link |-> supps[t].link,
                             sales |-> supps[t].sales, rows |-> supps[t].rows]
    BY <1>4, <1>8
<1> QED
    BY <1>1, <1>3, <1>7, <1>9, <1>10

LEMMA RemovesIs ==
    ASSUME SuppsShape, NEW w \in Supps, Removes(w)
    PROVE  /\ log' = log /\ UNCHANGED assessedVars /\ supps[w].status # "ASSESSED"
           /\ supps'[w] = [report |-> supps[w].report, gov |-> supps[w].gov, status |-> "REMOVED",
                           link |-> supps[w].link, sales |-> supps[w].sales, rows |-> supps[w].rows]
           /\ \A t \in Supps \ {w} : supps'[t] = supps[t]
<1> DEFINE new == [supps[w] EXCEPT !.status = "REMOVED"]
<1>1. new = [report |-> supps[w].report, gov |-> supps[w].gov, status |-> "REMOVED",
             link |-> supps[w].link, sales |-> supps[w].sales, rows |-> supps[w].rows]
    BY Ended DEF SuppsShape, SuppStatuses
<1>2. supps' = [supps EXCEPT ![w] = new]
    BY DEF Removes, RemoveLatest, SuppsShape, IsFunctionOn
<1> HIDE DEF new
<1>3. supps'[w] = new /\ \A t \in Supps \ {w} : supps'[t] = supps[t]
    BY <1>2 DEF SuppsShape, IsFunctionOn
<1> QED
    BY <1>1, <1>3 DEF Removes, RemoveLatest

\* What becomes of a supplemental report that was made.
Follows(t) ==
    /\ supps'[t].report = supps[t].report /\ supps'[t].gov = supps[t].gov
    /\ supps'[t].link = supps[t].link /\ supps'[t].status # "NONE"
    /\ Figures(supps[t].report, supps'[t].sales, supps'[t].rows)
    /\ supps'[t].status = "ASSESSED" =>
          \/ supps[t].status = "ASSESSED"
          \/ supps[t].gov /\ log' = Append(log, Entry(t, "ASSESSED", TRUE))

\* A supplemental report t of r that is new.
Begins(t, r) ==
    /\ \A u \in Supps : u < t => Made(u)
    /\ supps'[t].report = r /\ Figures(r, supps'[t].sales, supps'[t].rows)
    /\ supps'[t].status # "NONE"
    /\ supps'[t].status = "ASSESSED" =>
          supps'[t].gov /\ log' = Append(log, Entry(t, "ASSESSED", TRUE))
    /\ supps'[t].link # 0 =>
          supps'[t].link \in Supps /\ Made(supps'[t].link) /\ supps'[t].link < t

\* The entry that a request adds, if any, is of a supplemental report that is there
\* after it; only of a reassessment of the government it says that it is assessed.
EntryAdded ==
    \/ log' = log
    \/ \E e \in Entries : /\ log' = Append(log, e) /\ supps'[e.supp].status # "NONE"
                          /\ e.status = "ASSESSED" => e.gov /\ supps'[e.supp].gov

LEMMA RequestEffect ==
    ASSUME Shape, Figured, History, NEW r \in Reports, Requests(r)
    PROVE  /\ EntryAdded
           /\ \A t \in Supps : Made(t) => Follows(t)
           /\ \A t \in Supps : ~Made(t) => supps'[t] = supps[t] \/ Begins(t, r)
<1>1. SuppsShape
    BY DEF Shape
<1>2. \A s, status, gov : /\ Entry(s, status, gov).supp = s /\ Entry(s, status, gov).status = status
                          /\ Entry(s, status, gov).gov = gov
    BY DEF Entry
<1>3. \A t \in Supps : Made(t) /\ supps'[t] = supps[t] => Follows(t)
    BY DEF Follows, Figured, Made
<1>4. ASSUME NEW w \in Supps, Makes(w, r)
      PROVE  /\ EntryAdded
             /\ \A t \in Supps : Made(t) => Follows(t)
             /\ \A t \in Supps : ~Made(t) => supps'[t] = supps[t] \/ Begins(t, r)
    <2>1. ~Made(w) /\ \A t \in Supps : t < w => Made(t)
        BY <1>4 DEF Makes
    <2>2. PICK gov, status, sales, given :
              /\ gov \in BOOLEAN /\ status \in SentStatuses
              /\ supps'[w].report = r /\ supps'[w].gov = gov /\ supps'[w].status = status
              /\ supps'[w].link = LatestFor(r, gov)
              /\ supps'[w].sales = sales /\ supps'[w].rows = given
              /\ log' = Append(log, Entry(w, status, gov)) /\ Entry(w, status, gov) \in Entries
              /\ Figures(r, sales, given)
              /\ status = "ASSESSED" => gov /\ ToIssue(r)
              /\ \A t \in Supps \ {w} : supps'[t] = supps[t]
        BY <1>1, <1>4, MakesIs
    <2>3. status # "NONE"
        BY <2>2, Sent
    <2>4. ASSUME LatestFor(r, gov) # 0
          PROVE  LatestFor(r, gov) \in Supps /\ Made(LatestFor(r, gov)) /\ LatestFor(r, gov) < w
        <3> DEFINE l == LatestFor(r, gov)
        <3>1. l \in Supps /\ Made(l)
            BY <1>1, <2>4, LatestIsOf, OfIsMade
        <3> HIDE DEF l
        <3>2. l # w
            BY <2>1, <3>1
        <3>3. l \in Nat /\ w \in Nat
            BY <3>1, SupplementalsAssumption DEF Supps
        <3>4. w < l => Made(w)
            BY <3>1 DEF History
        <3>5. l < w
            BY <2>1, <3>2, <3>3, <3>4
        <3> QED
            BY <3>1, <3>5 DEF l
    <2>5. EntryAdded
        <3>1. /\ Entry(w, status, gov).supp = w /\ Entry(w, status, gov).status = status
              /\ Entry(w, status, gov).gov = gov
            BY <1>2
        <3> QED
            BY <2>2, <2>3, <3>1 DEF EntryAdded
    <2>6. \A t \in Supps : Made(t) => Follows(t)
        BY <1>3, <2>1, <2>2
    <2>7. Begins(w, r)
        BY <2>1, <2>2, <2>3, <2>4 DEF Begins
    <2> QED
        BY <2>2, <2>5, <2>6, <2>7
<1>5. ASSUME NEW w \in Of(r), Writes(w, r)
      PROVE  EntryAdded /\ \A t \in Supps : IF Made(t) THEN Follows(t) ELSE supps'[t] = supps[t]
    <2>1. w \in Supps /\ Made(w) /\ supps[w].report = r
        BY OfIsMade
    <2>2. PICK gov, status, sales, given, changes :
              /\ gov \in BOOLEAN /\ status \in SentStatuses
              /\ supps'[w] = [report |-> supps[w].report, gov |-> supps[w].gov, status |-> status,
                              link |-> supps[w].link, sales |-> sales, rows |-> given]
              /\ log' = Append(log, Entry(w, status, gov)) /\ Entry(w, status, gov) \in Entries
              /\ Figures(r, sales, given) /\ w = LatestFor(r, gov)
              /\ IF status = "ASSESSED"
                 THEN /\ gov /\ supps[w].gov /\ Issue(r, sales, given, changes)
                      /\ AdjustCreditsReassessment(w, changes)
                 ELSE UNCHANGED assessedVars
              /\ \A t \in Supps \ {w} :
                    \/ supps'[t] = supps[t]
                    \/ /\ status = "SUBMITTED" /\ t \in Of(r) /\ supps[t].gov /\ supps[t].status = "DRAFT"
                       /\ supps'[t] = [report |-> supps[t].report, gov |-> supps[t].gov,
                                       status |-> "DELETED", link |-> supps[t].link,
                                       sales |-> supps[t].sales, rows |-> supps[t].rows]
        BY <1>1, <1>5, WritesIs
    <2>3. status # "NONE"
        BY <2>2, Sent
    <2>4. /\ supps'[w].report = r /\ supps'[w].gov = supps[w].gov /\ supps'[w].status = status
          /\ supps'[w].link = supps[w].link /\ supps'[w].sales = sales /\ supps'[w].rows = given
        BY <2>1, <2>2
    <2>5. Follows(w)
        BY <2>1, <2>2, <2>3, <2>4 DEF Follows
    <2>6. ASSUME NEW t \in Supps, Made(t), supps'[t] = [report |-> supps[t].report, gov |-> supps[t].gov,
                                       status |-> "DELETED", link |-> supps[t].link,
                                       sales |-> supps[t].sales, rows |-> supps[t].rows]
          PROVE  Follows(t)
        BY <2>6 DEF Follows, Figured
    <2>7. \A t \in Of(r) : Made(t)
        BY OfIsMade
    <2>8. EntryAdded
        BY <1>2, <2>1, <2>2, <2>3, <2>4 DEF EntryAdded
    <2>9. \A t \in Supps \ {w} : IF Made(t) THEN Follows(t) ELSE supps'[t] = supps[t]
        BY <1>3, <2>1, <2>2, <2>6, <2>7
    <2> QED
        BY <2>1, <2>5, <2>8, <2>9
<1>6. ASSUME NEW w \in Of(r), Removes(w)
      PROVE  EntryAdded /\ \A t \in Supps : IF Made(t) THEN Follows(t) ELSE supps'[t] = supps[t]
    <2>1. w \in Supps /\ Made(w) /\ supps[w].report = r
        BY OfIsMade
    <2>2. /\ log' = log
          /\ supps'[w] = [report |-> supps[w].report, gov |-> supps[w].gov, status |-> "REMOVED",
                          link |-> supps[w].link, sales |-> supps[w].sales, rows |-> supps[w].rows]
          /\ \A t \in Supps \ {w} : supps'[t] = supps[t]
        BY <1>1, <1>6, <2>1, RemovesIs
    <2>3. Follows(w)
        BY <2>1, <2>2 DEF Follows, Figured
    <2>4. EntryAdded
        BY <2>2 DEF EntryAdded
    <2> QED
        BY <1>3, <2>1, <2>2, <2>3, <2>4
<1> QED
    BY <1>4, <1>5, <1>6 DEF Requests

\* The steps of supplemental reports are requests for one report.
OfRequest == OfSupplemental /\ \E r \in Reports : Assessed(r) /\ Requests(r)

LEMMA RequestKinds ==
    ASSUME Shape, Figured, [Next]_vars
    PROVE  Stays \/ OfReport \/ OfRequest
<1>1. ASSUME NEW r \in Reports, ReportStep(r, SupplierOpening(r), GovOpening(r)), UNCHANGED suppVars
      PROVE  OfReport
    BY <1>1, ReportStepEffect DEF OfReport, Shape
<1>2. ASSUME Environment, UNCHANGED suppVars
      PROVE  Stays
    BY <1>2 DEF Environment, Post, SubmitApplication, DecideApplication, Stays
<1>3. ASSUME SupplementalStep
      PROVE  OfRequest
    BY <1>3, SupplementalStepEffect, StepRequests DEF OfSupplemental, OfRequest
<1>4. CASE UNCHANGED vars
    BY <1>4 DEF vars, reportVars, Stays
<1> QED
    BY <1>1, <1>2, <1>3, <1>4 DEF Next

\* The figures of a report that is as it was are what they were.
LEMMA FiguresKept ==
    ASSUME NEW r, report'[r] = report[r], rows'[r] = rows[r],
           NEW sales, NEW given, Figures(r, sales, given)
    PROVE  /\ sales \in Nat \ {0}
           /\ given.ending = CalculateCreditReduction(
                  NewBalances((IF rows'[r].gov # NoRows THEN rows'[r].gov ELSE rows'[r].supplier).basis,
                              given.before),
                  ClassAReduction(sales, report'[r].year), UnspecifiedReductionBig(sales, report'[r].year),
                  report'[r].selection).ending
BY DEF Figures, Reduction, RowsOfRecord

LEMMA FiguredKept ==
    ASSUME Shape, Figured, History, [Next]_vars
    PROVE  Figured'
<1> SUFFICES ASSUME NEW s \in Supps, supps'[s].status # "NONE"
             PROVE  Figures(supps[s].report, supps[s].sales, supps[s].rows)'
    BY DEF Figured, Made
<1> DEFINE r == supps'[s].report
           sales == supps'[s].sales
           given == supps'[s].rows
<1>1. Figures(r, sales, given) /\ report'[r] = report[r] /\ rows'[r] = rows[r]
    <2>1. CASE Stays
        BY <2>1 DEF Stays, suppVars, Figured, Made
    <2>2. CASE OfReport
        <3>1. PICK q \in Reports : ReportEffect(q) /\ UNCHANGED suppVars
            BY <2>2 DEF OfReport
        <3>2. Made(s) /\ r = supps[s].report /\ sales = supps[s].sales /\ given = supps[s].rows
            BY <3>1 DEF suppVars, Made
        <3> HIDE DEF r, sales, given
        <3>3. r \in Reports /\ Assessed(r) /\ Figures(r, sales, given)
            BY <3>2 DEF Shape, OfAssessed, Figured, Made
        <3>4. r # q
            BY <3>1, <3>3 DEF ReportEffect, Assessed
        <3> QED
            BY <3>1, <3>3, <3>4 DEF ReportEffect
    <2>3. CASE OfRequest
        <3>1. PICK q \in Reports : Requests(q)
            BY <2>3 DEF OfRequest
        <3>2. UNCHANGED <<report, rows>>
            BY <2>3 DEF OfRequest, OfSupplemental
        <3>3. CASE Made(s)
            <4>1. Follows(s)
                BY <3>1, <3>3, RequestEffect
            <4> QED
                BY <3>2, <4>1 DEF Follows
        <3>4. CASE ~Made(s)
            <4>1. supps'[s].report = q /\ Figures(q, supps'[s].sales, supps'[s].rows)
                BY <3>1, <3>4, RequestEffect DEF Made, Begins
            <4> QED
                BY <3>2, <4>1
        <3> QED
            BY <3>3, <3>4
    <2> QED
        BY <2>1, <2>2, <2>3, RequestKinds
<1> HIDE DEF r, sales, given
<1>2. /\ sales \in Nat \ {0}
      /\ given.ending = CalculateCreditReduction(
             NewBalances((IF rows'[r].gov # NoRows THEN rows'[r].gov ELSE rows'[r].supplier).basis,
                         given.before),
             ClassAReduction(sales, report'[r].year), UnspecifiedReductionBig(sales, report'[r].year),
             report'[r].selection).ending
    BY <1>1, FiguresKept
<1> QED
    BY <1>2 DEF Figures, Reduction, RowsOfRecord, r, sales, given

LEMMA HistoryKept ==
    ASSUME Shape, Figured, History, [Next]_vars
    PROVE  History'
<1>1. CASE UNCHANGED suppVars
    BY <1>1 DEF suppVars, History, Made
<1>2. CASE OfRequest
    <2>1. PICK r \in Reports : Requests(r)
        BY <1>2 DEF OfRequest
    <2>2. /\ EntryAdded
          /\ \A t \in Supps : Made(t) => Follows(t)
          /\ \A t \in Supps : ~Made(t) => supps'[t] = supps[t] \/ Begins(t, r)
        BY <2>1, RequestEffect
    <2>3. log \in Seq(Entries) /\ \A j \in DOMAIN log : log[j].supp \in Supps /\ Made(log[j].supp)
        BY LoggedAreMade
    <2>4. \A t \in Supps : Made(t) => supps'[t].status # "NONE"
        BY <2>2 DEF Follows
    <2>5. \A i \in DOMAIN log : i \in DOMAIN log' /\ log'[i] = log[i]
        BY <2>2, <2>3 DEF EntryAdded
    <2>6. ASSUME NEW t \in Supps, log' = Append(log, Entry(t, "ASSESSED", TRUE))
          PROVE  \E i \in DOMAIN log' : log'[i] = Entry(t, "ASSESSED", TRUE)
        <3> DEFINE e == Entry(t, "ASSESSED", TRUE)
                   n == Len(log) + 1
        <3>1. e \in Entries
            BY DEF Entry, Entries, SentStatuses, Statuses
        <3> HIDE DEF e
        <3>2. n \in DOMAIN log' /\ log'[n] = e
            <4>1. log' = Append(log, e)
                BY <2>6 DEF e
            <4> QED
                BY <2>3, <3>1, <4>1
        <3> QED
            BY <3>2 DEF e
    <2>7. \A s \in Supps : supps'[s].status = "NONE" => supps'[s].report = 0 /\ supps'[s].link = 0
        BY <2>2, <2>4 DEF History, Begins
    <2>8. \A s, t \in Supps : s < t /\ supps'[t].status # "NONE" => supps'[s].status # "NONE"
        <3> SUFFICES ASSUME NEW s \in Supps, NEW t \in Supps, s < t, supps'[t].status # "NONE"
                     PROVE  supps'[s].status # "NONE"
            OBVIOUS
        <3>1. Made(s)
            <4>1. CASE Made(t)
                BY <4>1 DEF History
            <4>2. CASE ~Made(t)
                BY <2>2, <4>2 DEF Begins, Made
            <4> QED
                BY <4>1, <4>2
        <3> QED
            BY <2>4, <3>1
    <2>9. \A s \in Supps : supps'[s].link # 0 =>
              /\ supps'[s].link \in Supps /\ supps'[s].link < s
              /\ supps'[supps'[s].link].status # "NONE"
        <3> TAKE s \in Supps
        <3>1. CASE Made(s)
            BY <2>2, <2>4, <3>1 DEF Follows, History
        <3>2. CASE ~Made(s)
            BY <2>2, <2>4, <3>2 DEF History, Begins
        <3> QED
            BY <3>1, <3>2
    <2>10. \A s \in Supps : supps'[s].status = "ASSESSED" =>
              supps'[s].gov /\ \E i \in DOMAIN log' : log'[i] = Entry(s, "ASSESSED", TRUE)
        <3> SUFFICES ASSUME NEW s \in Supps, supps'[s].status = "ASSESSED"
                     PROVE  supps'[s].gov /\ \E i \in DOMAIN log' : log'[i] = Entry(s, "ASSESSED", TRUE)
            OBVIOUS
        <3>1. CASE Made(s)
            BY <2>2, <2>5, <2>6, <3>1 DEF Follows, History
        <3>2. CASE ~Made(s)
            BY <2>2, <2>6, <3>2 DEF Made, Begins
        <3> QED
            BY <3>1, <3>2
    <2>11. \A i \in DOMAIN log' : log'[i].status = "ASSESSED" => log'[i].gov /\ supps'[log'[i].supp].gov
        <3>1. \A i \in DOMAIN log : log'[i].status = "ASSESSED" => log'[i].gov /\ supps'[log'[i].supp].gov
            BY <2>2, <2>3, <2>5 DEF Follows, History
        <3>2. CASE log' = log
            BY <3>1, <3>2
        <3>3. ASSUME NEW e \in Entries, log' = Append(log, e),
                     e.status = "ASSESSED" => e.gov /\ supps'[e.supp].gov
              PROVE  \A i \in DOMAIN log' :
                         log'[i].status = "ASSESSED" => log'[i].gov /\ supps'[log'[i].supp].gov
            <4>1. \A i \in DOMAIN log' : i \in DOMAIN log \/ log'[i] = e
                BY <2>3, <3>3
            <4> QED
                BY <3>1, <3>3, <4>1
        <3> QED
            BY <2>2, <3>2, <3>3 DEF EntryAdded
    <2> QED
        BY <2>7, <2>8, <2>9, <2>10, <2>11 DEF History, Made
<1> QED
    BY <1>1, <1>2, RequestKinds DEF Stays, OfReport

\* Every correction keeps what is left for its sales, and the history tells which
\* reassessments were issued: those of the government only.
THEOREM HistoryTold == Spec => [](Figured /\ History)
<1>1. ASSUME Init PROVE Figured /\ History
    BY <1>1 DEF Init, Figured, History, Made, NoSupp
<1>2. Shape /\ (Figured /\ History) /\ [Next]_vars => (Figured /\ History)'
    BY FiguredKept, HistoryKept
<1> QED
    BY <1>1, <1>2, SupplementalsOfAssessed, PTL DEF Spec


-----------------------------------------------------------------------------
\* The rows that are there were saved with the selection of their report

Agrees(rep, given) ==
    /\ given.supplier # NoRows => given.supplier.selection = rep.selection
    /\ given.gov # NoRows => given.gov.selection = rep.selection
SelectionsAgree == \A r \in Reports : Agrees(report[r], rows[r])

\* Neither the selection nor the rows change, or the rows of the government are saved
\* with the selection.
LEMMA AgreesStill ==
    ASSUME ReportsTyped, NEW r \in Reports, Agrees(report[r], rows[r]),
           report'[r].selection = report[r].selection,
           \/ rows' = rows
           \/ \E given : rows' = [rows EXCEPT ![r].gov = given] /\ given.selection = report[r].selection
    PROVE  Agrees(report'[r], rows'[r])
<1>1. CASE rows' = rows
    BY <1>1 DEF Agrees
<1>2. ASSUME NEW given, rows' = [rows EXCEPT ![r].gov = given], given.selection = report[r].selection
      PROVE  Agrees(report'[r], rows'[r])
    <2>1. rows'[r] = [rows[r] EXCEPT !.gov = given]
        BY <1>2, RowsOf DEF IsFunctionOn
    <2>2. PICK a, b : rows[r] = [supplier |-> a, gov |-> b]
        BY RowsOf DEF IsRows
    <2>3. rows'[r].supplier = rows[r].supplier /\ rows'[r].gov = given
        BY <2>1, <2>2
    <2> QED
        BY <1>2, <2>3 DEF Agrees
<1> QED
    BY <1>1, <1>2

LEMMA SelectionsStep ==
    ASSUME ReportsTyped, NEW r \in Reports, ReportStep(r, SupplierOpening(r), GovOpening(r)),
           Agrees(report[r], rows[r])
    PROVE  Agrees(report'[r], rows'[r])
<1>1. \A year, basis, selection, sales :
          /\ SupplierRows(year, basis, selection, sales).selection = selection
          /\ GovRows(year, basis, selection, sales).selection = selection
    BY DEF SupplierRows, GovRows, Saved
<1>2. CASE Create(r)
    <2>1. r \notin Existing
        BY <1>2, ReportsAssumption DEF Create
    <2>2. rows'[r].supplier = NoRows /\ rows'[r].gov = NoRows
        BY <1>2, <2>1, RowsOf DEF Create, Existing, RowsOk
    <2> QED
        BY <2>2 DEF Agrees
<1>3. ASSUME NEW sales \in SalesToEnter(r), NEW selection \in SelectionsToMake(r), NEW confirm \in BOOLEAN,
             SaveObligation(r, sales, selection, confirm, SupplierOpening(r))
      PROVE  Agrees(report'[r], rows'[r])
    <2> DEFINE newest == IF sales # 0 THEN "supplier" ELSE report[r].newest
               confirmed == IF confirm THEN report[r].confirmed \union {"compliance_obligation"}
                            ELSE report[r].confirmed
               given == SupplierRows(report[r].year, Basis(r, SupplierOpening(r)), selection, sales)
    <2>1. report'[r] = [report[r] EXCEPT !.supplierSales = sales, !.newest = newest,
                                         !.selection = selection, !.confirmed = confirmed]
        BY <1>3 DEF SaveObligation, ReportsTyped, ReportsShape
    <2>2. rows'[r] = [supplier |-> given, gov |-> NoRows]
        BY <1>3, RowsOf DEF SaveObligation, IsFunctionOn
    <2>3. given.selection = selection
        BY <1>1
    <2> HIDE DEF newest, confirmed, given
    <2>4. report'[r].selection = selection
        BY <2>1, RowsOf DEF ReportRecords
    <2>5. rows'[r].supplier = given /\ rows'[r].gov = NoRows
        BY <2>2
    <2> QED
        BY <2>3, <2>4, <2>5 DEF Agrees
<1>4. CASE Delete(r)
    <2>1. rows'[r] = [supplier |-> NoRows, gov |-> NoRows]
        BY <1>4, RowsOf DEF Delete, IsFunctionOn
    <2>2. rows'[r].supplier = NoRows /\ rows'[r].gov = NoRows
        BY <2>1
    <2> QED
        BY <2>2 DEF Agrees
<1>5. ASSUME NEW saved \in BOOLEAN, Recommend(r, saved, GovOpening(r)) PROVE Agrees(report'[r], rows'[r])
    <2> DEFINE given == GovRows(report[r].year, Basis(r, GovOpening(r)), report[r].selection,
                                GovSales(report[r]))
    <2>1. rows' = rows \/ rows' = [rows EXCEPT ![r].gov = given]
        BY <1>5 DEF Recommend, AssessmentPage
    <2>2. given.selection = report[r].selection
        BY <1>1
    <2> HIDE DEF given
    <2>3. report'[r] = [report[r] EXCEPT !.status = "RECOMMENDED"]
        BY <1>5 DEF Recommend, ReportsTyped, ReportsShape
    <2>4. report'[r].selection = report[r].selection
        BY <2>3, RowsOf DEF ReportRecords
    <2> QED
        BY <2>1, <2>2, <2>4, AgreesStill
<1>6. CASE DirectorSave(r)
    <2> DEFINE given == GovRows(report[r].year, rows[r].supplier.basis, report[r].selection,
                                GovSales(report[r]))
    <2>1. rows' = [rows EXCEPT ![r].gov = given] /\ report' = report
        BY <1>6 DEF DirectorSave
    <2>2. given.selection = report[r].selection
        BY <1>1
    <2> HIDE DEF given
    <2> QED
        BY <2>1, <2>2, AgreesStill
<1>7. ASSUME rows' = rows, report'[r].selection = report[r].selection PROVE Agrees(report'[r], rows'[r])
    BY <1>7 DEF Agrees
<1>8. ASSUME NEW part, ConfirmPart(r, part) \/ CancelConfirmation(r, part)
      PROVE  Agrees(report'[r], rows'[r])
    <2>1. /\ rows' = rows
          /\ \/ report'[r] = [report[r] EXCEPT !.confirmed = @ \union {part}]
             \/ report'[r] = [report[r] EXCEPT !.confirmed = @ \ {part}]
        BY <1>8 DEF ConfirmPart, CancelConfirmation, ReportsTyped, ReportsShape
    <2>2. report'[r].selection = report[r].selection
        BY <2>1, RowsOf DEF ReportRecords
    <2> QED
        BY <1>7, <2>1, <2>2
<1>9. CASE Submit(r) \/ ReturnToAnalyst(r) \/ Assess(r)
    <2>1. /\ rows' = rows
          /\ \/ report'[r] = [report[r] EXCEPT !.status = "SUBMITTED", !.confirmed = Modules]
             \/ report'[r] = [report[r] EXCEPT !.status = "RETURNED"]
             \/ report'[r] = [report[r] EXCEPT !.status = "ASSESSED"]
        BY <1>9 DEF Submit, ReturnToAnalyst, Assess, ReportsTyped, ReportsShape
    <2>2. report'[r].selection = report[r].selection
        BY <2>1, RowsOf DEF ReportRecords
    <2> QED
        BY <1>7, <2>1, <2>2
<1>10. ASSUME NEW sales \in LdvSales, EditAssessment(r, sales) PROVE Agrees(report'[r], rows'[r])
    <2>1. \/ report'[r] = [report[r] EXCEPT !.govSales = sales, !.newest = "gov",
                                            !.display = @ \/ report[r].govSales = 0]
          \/ report'[r] = [report[r] EXCEPT !.govSales = 0, !.newest = "supplier", !.display = TRUE]
          \/ report'[r] = [report[r] EXCEPT !.supplierSales = 0, !.newest = "gov"]
        BY <1>10 DEF EditAssessment, ReportsTyped, ReportsShape
    <2>2. report'[r].selection = report[r].selection
        BY <2>1, RowsOf DEF ReportRecords
    <2> QED
        BY <1>7, <1>10, <2>2 DEF EditAssessment
<1>11. ASSUME NEW draftFirst \in BOOLEAN, ReturnToSupplier(r, draftFirst) PROVE Agrees(report'[r], rows'[r])
    <2> DEFINE shown == report[r].govSales = 0
               kept == IF draftFirst THEN report[r].confirmed \ {"compliance_summary"} ELSE {}
    <2>1. rows' = rows
          /\ report'[r] = [report[r] EXCEPT !.status = "DRAFT", !.display = shown, !.confirmed = kept]
        BY <1>11 DEF ReturnToSupplier, ReportsTyped, ReportsShape
    <2> HIDE DEF shown, kept
    <2>2. report'[r].selection = report[r].selection
        BY <2>1, RowsOf DEF ReportRecords
    <2> QED
        BY <1>7, <2>1, <2>2
<1>12. CASE \E part \in OtherParts : ConfirmPart(r, part)
    BY <1>8, <1>12
<1>13. CASE \E part \in Parts : CancelConfirmation(r, part)
    BY <1>8, <1>13
<1> QED
    BY <1>2, <1>3, <1>4, <1>5, <1>6, <1>9, <1>10, <1>11, <1>12, <1>13 DEF ReportStep

\* However a report is edited, returned and saved again, the rows of record of it are
\* computed with the selection that it has, which a correction is computed with too.
THEOREM SelectionOfRecord == Spec => []SelectionsAgree
<1>1. ASSUME Init PROVE SelectionsAgree
    BY <1>1 DEF Init, ReportsInit, SelectionsAgree, Agrees
<1>2. ASSUME Shape, Computed, SelectionsAgree, [Next]_vars
      PROVE  SelectionsAgree'
    <2>1. ReportsTyped
        BY <1>2 DEF ReportsTyped, Shape
    <2>2. ASSUME NEW r \in Reports, ReportStep(r, SupplierOpening(r), GovOpening(r))
          PROVE  SelectionsAgree'
        <3>1. \A q \in Reports : q # r => report'[q] = report[q] /\ rows'[q] = rows[q]
            BY <2>1, <2>2, ReportStepEffect DEF ReportsTyped, ReportEffect
        <3>2. Agrees(report'[r], rows'[r])
            BY <1>2, <2>1, <2>2, SelectionsStep DEF SelectionsAgree
        <3>3. \A q \in Reports : Agrees(report'[q], rows'[q])
            BY <1>2, <3>1, <3>2 DEF SelectionsAgree
        <3> QED
            BY <3>3 DEF SelectionsAgree, Agrees
    <2>3. CASE UNCHANGED <<report, rows>>
        BY <1>2, <2>3 DEF SelectionsAgree, Agrees
    <2>4. CASE Environment
        BY <2>3, <2>4 DEF Environment, Post, SubmitApplication, DecideApplication
    <2>5. CASE SupplementalStep
        BY <1>2, <2>3, <2>5, SupplementalStepEffect DEF OfSupplemental
    <2>6. CASE UNCHANGED vars
        BY <2>3, <2>6 DEF vars, reportVars
    <2> QED
        BY <1>2, <2>2, <2>4, <2>5, <2>6 DEF Next
<1> QED
    BY <1>1, <1>2, EverythingComputed, PTL DEF Spec


-----------------------------------------------------------------------------
\* A reassessment that is the only one of its report

\* s is the reassessment of report r, and there is none besides it but the
\* supplier's supplemental report that it answers.
Lone(s, r) ==
    /\ supps[s].report = r /\ supps[s].gov
    /\ \A t \in Supps : supps[t].report = r => t = s \/ (t = supps[s].link /\ ~supps[t].gov)

\* Where there is a single reassessment, none was issued before it is.
LoneIssued == \A r \in Reports, s \in Supps :
    Lone(s, r) /\ Reassessed(r) => supps[s].status = "ASSESSED"

\* Once it is issued no page of the report offers anything.
LEMMA LoneNotOffered ==
    ASSUME History, NEW r \in Reports, NEW s \in Supps, Lone(s, r), supps[s].status = "ASSESSED"
    PROVE  ~Offered(r)
<1> SUFFICES ASSUME NEW u \in Of(r),
                    \/ SupplierOffers(u) \/ DirectorOffers(u)
                    \/ /\ Listed(u, TRUE)
                       /\ \E shown \in ActualStatus(u, TRUE) :
                             AnalystReturns(u, shown) \/ \E status : AnalystOffers(u, shown, status)
             PROVE  FALSE
    BY DEF Offered
<1>1. u \in Supps /\ supps[u].report = r
    BY DEF Of
<1>2. CASE u = s
    <2>1. \A gov : ActualStatus(u, gov) = {"ASSESSED"}
        BY <1>2 DEF Lone, ActualStatus
    <2>2. supps[u].status = "ASSESSED" /\ supps[u].gov
        BY <1>2 DEF Lone
    <2>3. ~SupplierOffers(u) /\ ~DirectorOffers(u)
        BY <2>1, <2>2 DEF SupplierOffers, DirectorOffers
    <2>4. ASSUME NEW shown \in ActualStatus(u, TRUE)
          PROVE  ~AnalystReturns(u, shown) /\ \A status : ~AnalystOffers(u, shown, status)
        <3>1. ~AnalystMayEdit(u, shown)
            BY <2>1, <2>2 DEF AnalystMayEdit
        <3> QED
            BY <2>2, <3>1 DEF AnalystReturns, AnalystOffers
    <2> QED
        BY <2>3, <2>4
<1>3. CASE u # s
    <2>1. u = supps[s].link /\ ~supps[u].gov
        BY <1>1, <1>3 DEF Lone
    <2>2. Linked(r, u) = {s}
        <3>1. s \in Linked(r, u)
            BY <2>1 DEF Linked, Of, Lone
        <3>2. ASSUME NEW t \in Linked(r, u) PROVE t = s
            <4>1. t \in Supps /\ supps[t].report = r /\ supps[t].link = u
                BY DEF Linked, Of
            <4>2. t # u
                <5>1. u # 0
                    BY <1>1 DEF Supps
                <5>2. u < t
                    BY <4>1, <5>1 DEF History
                <5> QED
                    BY <1>1, <5>2, SupplementalsAssumption DEF Supps
            <4> QED
                BY <2>1, <4>1, <4>2 DEF Lone
        <3> QED
            BY <3>1, <3>2
    <2>3. supps[s].gov /\ supps[u].report = r
        BY <1>1 DEF Lone
    <2>4. \A gov : ActualStatus(u, gov) = {"ASSESSED"}
        BY <2>1, <2>2, <2>3 DEF ActualStatus
    <2>5. ~SupplierOffers(u) /\ ~DirectorOffers(u)
        BY <2>1, <2>4 DEF SupplierOffers, DirectorOffers
    <2>6. Listed(u, TRUE) => supps[u].status \notin {"DRAFT", "RETURNED", "SUBMITTED"}
        BY <2>1, <2>2, <2>3 DEF Listed
    <2>7. ASSUME Listed(u, TRUE), NEW shown \in ActualStatus(u, TRUE)
          PROVE  ~AnalystReturns(u, shown) /\ \A status : ~AnalystOffers(u, shown, status)
        <3>1. ~AnalystMayEdit(u, shown)
            BY <2>4, <2>6, <2>7 DEF AnalystMayEdit
        <3> QED
            BY <2>6, <2>7, <3>1 DEF AnalystReturns, AnalystOffers
    <2> QED
        BY <2>5, <2>7
<1> QED
    BY <1>2, <1>3

\* A request for a report leaves the supplemental reports of all others.
LEMMA OthersKept ==
    ASSUME Shape, NEW r \in Reports, Requests(r)
    PROVE  /\ \A t \in Supps : supps[t].report # r /\ supps'[t].report # r => supps'[t] = supps[t]
           /\ \A q \in Reports : q # r => posted'[q] = posted[q]
           /\ log' = log \/ \E e \in Entries : log' = Append(log, e) /\ supps'[e.supp].report = r
<1>1. SuppsShape
    BY DEF Shape
<1>2. \A s, status, gov : Entry(s, status, gov).supp = s
    BY DEF Entry
<1>3. UNCHANGED assessedVars => \A q \in Reports : posted'[q] = posted[q]
    BY DEF assessedVars
<1>4. ASSUME NEW w \in Supps, Makes(w, r)
      PROVE  /\ \A t \in Supps : supps[t].report # r /\ supps'[t].report # r => supps'[t] = supps[t]
             /\ \A q \in Reports : q # r => posted'[q] = posted[q]
             /\ log' = log \/ \E e \in Entries : log' = Append(log, e) /\ supps'[e.supp].report = r
    <2>1. PICK gov \in BOOLEAN, status \in SentStatuses :
              /\ supps'[w].report = r
              /\ log' = Append(log, Entry(w, status, gov)) /\ Entry(w, status, gov) \in Entries
              /\ \A t \in Supps \ {w} : supps'[t] = supps[t]
        BY <1>1, <1>4, MakesIs
    <2>2. UNCHANGED assessedVars
        BY <1>4 DEF Makes
    <2>3. Entry(w, status, gov).supp = w
        BY <1>2
    <2> QED
        BY <1>3, <2>1, <2>2, <2>3
<1>5. ASSUME NEW w \in Of(r), Writes(w, r)
      PROVE  /\ \A t \in Supps : supps[t].report # r /\ supps'[t].report # r => supps'[t] = supps[t]
             /\ \A q \in Reports : q # r => posted'[q] = posted[q]
             /\ log' = log \/ \E e \in Entries : log' = Append(log, e) /\ supps'[e.supp].report = r
    <2>1. w \in Supps /\ Made(w) /\ supps[w].report = r
        BY OfIsMade
    <2>2. PICK gov, status, sales, given, changes :
              /\ gov \in BOOLEAN /\ status \in SentStatuses
              /\ supps'[w] = [report |-> supps[w].report, gov |-> supps[w].gov, status |-> status,
                              link |-> supps[w].link, sales |-> sales, rows |-> given]
              /\ log' = Append(log, Entry(w, status, gov)) /\ Entry(w, status, gov) \in Entries
              /\ IF status = "ASSESSED" THEN AdjustCreditsReassessment(w, changes)
                 ELSE UNCHANGED assessedVars
              /\ \A t \in Supps \ {w} : supps'[t] = supps[t] \/ t \in Of(r)
        BY <1>1, <1>5, WritesIs
    <2>3. supps'[w].report = r
        BY <2>1, <2>2
    <2>4. Entry(w, status, gov).supp = w
        BY <1>2
    <2>5. \A q \in Reports : q # r => posted'[q] = posted[q]
        <3>1. CASE AdjustCreditsReassessment(w, changes)
            <4> DEFINE new == [k \in Kinds |-> [y \in Years |-> [c \in Classes |->
                                  AdjustedCell(r, changes, y, c)[k]]]]
            <4>1. posted' = [posted EXCEPT ![r] = new]
                BY <2>1, <3>1 DEF AdjustCreditsReassessment
            <4> HIDE DEF new
            <4> QED
                BY <4>1 DEF Shape, ReportsShape, IsFunctionOn
        <3> QED
            BY <1>3, <2>2, <3>1
    <2>6. \A t \in Supps : supps[t].report # r /\ supps'[t].report # r => supps'[t] = supps[t]
        BY <2>1, <2>2 DEF Of
    <2> QED
        BY <2>2, <2>3, <2>4, <2>5, <2>6
<1>6. ASSUME NEW w \in Of(r), Removes(w)
      PROVE  /\ \A t \in Supps : supps[t].report # r /\ supps'[t].report # r => supps'[t] = supps[t]
             /\ \A q \in Reports : q # r => posted'[q] = posted[q]
             /\ log' = log \/ \E e \in Entries : log' = Append(log, e) /\ supps'[e.supp].report = r
    <2>1. w \in Supps /\ Made(w) /\ supps[w].report = r
        BY OfIsMade
    <2>2. log' = log /\ UNCHANGED assessedVars /\ \A t \in Supps \ {w} : supps'[t] = supps[t]
        BY <1>1, <1>6, <2>1, RemovesIs
    <2> QED
        BY <1>3, <2>1, <2>2
<1> QED
    BY <1>4, <1>5, <1>6 DEF Requests


\* The director issues s, the only reassessment of r, with its sales and its rows.
IssuesAlone(s, r) ==
    /\ Lone(s, r) /\ ~Reassessed(r) /\ supps[s].status = "RECOMMENDED"
    /\ AdjustCreditsReassessment(s, ReassessmentReductions(r, supps[s].rows, supps[s].sales))
    /\ supps'[s].status = "ASSESSED"
    /\ supps'[s].sales = supps[s].sales /\ supps'[s].rows = supps[s].rows

\* What a request does to a report that then has a single reassessment.
LEMMA LoneRequest ==
    ASSUME Shape, Figured, History, LoneIssued, History', NEW r \in Reports, Requests(r),
           NEW s \in Supps, Lone(s, r)'
    PROVE  \/ supps'[s].status # "ASSESSED" /\ ~Reassessed(r)'
           \/ IssuesAlone(s, r)
<1>1. SuppsShape
    BY DEF Shape
<1>2. /\ supps'[s].report = r /\ supps'[s].gov
      /\ \A t \in Supps : supps'[t].report = r => t = s \/ (t = supps'[s].link /\ ~supps'[t].gov)
    BY DEF Lone
<1>3. \A t, status, gov : /\ Entry(t, status, gov).supp = t /\ Entry(t, status, gov).status = status
                          /\ Entry(t, status, gov).gov = gov
    BY DEF Entry
<1>4. log \in Seq(Entries) /\ \A i \in DOMAIN log : log[i].supp \in Supps /\ Made(log[i].supp)
    BY LoggedAreMade
\* An entry that says so is of s.
<1>5. Reassessed(r)' => \E i \in DOMAIN log' : log'[i].supp = s /\ log'[i].status = "ASSESSED"
    <2>1. SUFFICES ASSUME NEW i \in DOMAIN log', log'[i].gov, log'[i].status = "ASSESSED",
                          supps'[log'[i].supp].report = r
                   PROVE  log'[i].supp = s
        BY DEF Reassessed, Issues
    <2>2. supps'[log'[i].supp].gov
        BY <2>1 DEF History
    <2>3. log'[i].supp \in Supps
        BY <1>4, <2>1, RequestEffect DEF EntryAdded, Entries
    <2> QED
        BY <1>2, <2>1, <2>2, <2>3
<1>6. ASSUME NEW w \in Supps, Makes(w, r)
      PROVE  supps'[s].status # "ASSESSED" /\ ~Reassessed(r)'
    <2>1. ~Made(w) /\ w # 0
        BY <1>6 DEF Makes, Supps
    <2>2. PICK gov \in BOOLEAN, status \in SentStatuses :
              /\ supps'[w].report = r /\ supps'[w].gov = gov /\ supps'[w].status = status
              /\ log' = Append(log, Entry(w, status, gov)) /\ Entry(w, status, gov) \in Entries
              /\ status = "ASSESSED" => gov /\ ToIssue(r)
              /\ \A t \in Supps \ {w} : supps'[t] = supps[t]
        BY <1>1, <1>6, MakesIs
    <2>3. s = w
        <3>1. SUFFICES ASSUME s # w PROVE FALSE
            OBVIOUS
        <3>2. w = supps[s].link
            BY <1>2, <2>2, <3>1
        <3> QED
            BY <2>1, <3>2 DEF History
    <2>4. status # "ASSESSED"
        <3>1. SUFFICES ASSUME NEW u \in Of(r), DirectorOffers(u) PROVE FALSE
            BY <2>2 DEF ToIssue
        <3>2. u \in Supps /\ Made(u) /\ supps[u].report = r /\ supps[u].gov
            BY <3>1, OfIsMade DEF DirectorOffers
        <3>3. u # w
            BY <2>1, <3>2
        <3> QED
            BY <1>2, <2>2, <2>3, <3>2, <3>3
    <2>5. \A i \in DOMAIN log' : log'[i].supp = w => log'[i].status # "ASSESSED"
        <3>1. \A i \in DOMAIN log' : (i \in DOMAIN log /\ log'[i] = log[i]) \/ log'[i] = Entry(w, status, gov)
            BY <1>4, <2>2
        <3>2. \A i \in DOMAIN log : log[i].supp # w
            BY <1>4, <2>1
        <3>3. Entry(w, status, gov).status # "ASSESSED"
            BY <1>3, <2>4
        <3> QED
            BY <3>1, <3>2, <3>3
    <2> QED
        BY <1>5, <2>2, <2>3, <2>4, <2>5
<1>7. CASE ~ \E w \in Supps : Makes(w, r)
    <2>1. PICK w \in Of(r) : Offered(r) /\ (Writes(w, r) \/ Removes(w))
        BY <1>7 DEF Requests
    <2>2. w \in Supps /\ Made(w) /\ supps[w].report = r
        BY OfIsMade
    <2>3. \A t \in Supps : supps'[t].report = supps[t].report /\ supps'[t].gov = supps[t].gov
                           /\ supps'[t].link = supps[t].link
        <3>1. CASE Removes(w)
            <4>1. /\ supps'[w] = [report |-> supps[w].report, gov |-> supps[w].gov, status |-> "REMOVED",
                                  link |-> supps[w].link, sales |-> supps[w].sales, rows |-> supps[w].rows]
                  /\ \A t \in Supps \ {w} : supps'[t] = supps[t]
                BY <1>1, <2>2, <3>1, RemovesIs
            <4> QED
                BY <4>1
        <3>2. CASE Writes(w, r)
            <4>1. \A t \in Supps \ {w} : supps'[t] = supps[t] \/ t \in Of(r)
                BY <1>1, <3>2, WritesIs
            <4>2. \A t \in Supps : Made(t) => Follows(t)
                BY RequestEffect
            <4>3. \A t \in Of(r) : Made(t)
                BY OfIsMade
            <4> QED
                BY <2>2, <4>1, <4>2, <4>3 DEF Follows
        <3> QED
            BY <2>1, <3>1, <3>2
    <2>4. Lone(s, r)
        BY <1>2, <2>3 DEF Lone
    <2>5. supps[s].status # "ASSESSED" /\ ~Reassessed(r)
        BY <2>1, <2>4, LoneNotOffered DEF LoneIssued
    <2>6. CASE Removes(w)
        <3>1. /\ log' = log
              /\ supps'[w] = [report |-> supps[w].report, gov |-> supps[w].gov, status |-> "REMOVED",
                              link |-> supps[w].link, sales |-> supps[w].sales, rows |-> supps[w].rows]
              /\ \A t \in Supps \ {w} : supps'[t] = supps[t]
            BY <1>1, <2>2, <2>6, RemovesIs
        <3>2. supps'[s].status # "ASSESSED"
            BY <2>5, <3>1
        <3>3. ~Reassessed(r)'
            BY <1>4, <2>3, <2>5, <3>1 DEF Reassessed, Issues
        <3> QED
            BY <3>2, <3>3
    <2>7. CASE Writes(w, r)
        <3>1. PICK gov, status, sales, given, changes :
                /\ gov \in BOOLEAN /\ status \in SentStatuses
                /\ supps'[w] = [report |-> supps[w].report, gov |-> supps[w].gov, status |-> status,
                                link |-> supps[w].link, sales |-> sales, rows |-> given]
                /\ log' = Append(log, Entry(w, status, gov)) /\ Entry(w, status, gov) \in Entries
                /\ IF status = "ASSESSED"
                   THEN /\ gov /\ supps[w].gov /\ Issue(r, sales, given, changes)
                        /\ AdjustCreditsReassessment(w, changes)
                   ELSE UNCHANGED assessedVars
                /\ \A t \in Supps \ {w} :
                      \/ supps'[t] = supps[t]
                      \/ supps'[t] = [report |-> supps[t].report, gov |-> supps[t].gov,
                                      status |-> "DELETED", link |-> supps[t].link,
                                      sales |-> supps[t].sales, rows |-> supps[t].rows]
            BY <1>1, <2>7, WritesIs
        <3>2. supps'[w].status = status /\ supps'[w].sales = sales /\ supps'[w].rows = given
            BY <3>1
        <3>3. CASE status = "ASSESSED"
            <4>1. \A u \in Of(r) : supps[u].gov => u = s
                BY <2>4 DEF Of, Lone
            <4>2. PICK u \in Of(r) : /\ DirectorOffers(u) /\ sales = supps[u].sales /\ given = supps[u].rows
                                     /\ changes = ReassessmentReductions(r, given, sales)
                BY <3>1, <3>3 DEF Issue
            <4>3. u = s /\ w = s /\ supps[s].status = "RECOMMENDED"
                BY <2>1, <3>1, <3>3, <4>1, <4>2 DEF DirectorOffers
            <4>4. AdjustCreditsReassessment(s, ReassessmentReductions(r, supps[s].rows, supps[s].sales))
                BY <3>1, <3>3, <4>2, <4>3
            <4> QED
                BY <2>4, <2>5, <3>2, <3>3, <4>2, <4>3, <4>4 DEF IssuesAlone
        <3>4. CASE status # "ASSESSED"
            <4>1. supps'[s].status # "ASSESSED"
                <5>1. CASE s = w
                    BY <3>2, <3>4, <5>1
                <5>2. CASE s # w
                    <6>1. \/ supps'[s] = supps[s]
                          \/ supps'[s] = [report |-> supps[s].report, gov |-> supps[s].gov,
                                          status |-> "DELETED", link |-> supps[s].link,
                                          sales |-> supps[s].sales, rows |-> supps[s].rows]
                        BY <3>1, <5>2
                    <6> QED
                        BY <2>5, <6>1
                <5> QED
                    BY <5>1, <5>2
            <4>2. ~Reassessed(r)'
                <5>1. Entry(w, status, gov).status # "ASSESSED"
                    BY <1>3, <3>4
                <5>2. \A i \in DOMAIN log' : (i \in DOMAIN log /\ log'[i] = log[i])
                                             \/ log'[i] = Entry(w, status, gov)
                    BY <1>4, <3>1
                <5> QED
                    BY <1>4, <2>3, <2>5, <5>1, <5>2 DEF Reassessed, Issues
            <4> QED
                BY <4>1, <4>2
        <3> QED
            BY <3>3, <3>4
    <2> QED
        BY <2>1, <2>6, <2>7
<1> QED
    BY <1>6, <1>7


-----------------------------------------------------------------------------
\* What a report was reduced by, and what its correction is computed from

LEMMA SameBalance ==
    ASSUME NEW a \in Balances, NEW b \in Balances, \A y \in Years, c \in Classes : a[y][c] = b[y][c]
    PROVE  a = b
<1>1. \A y \in Years : a[y] \in [Classes -> Int] /\ b[y] \in [Classes -> Int]
    BY DEF Balances
<1>2. \A y \in Years : a[y] = b[y]
    BY <1>1
<1> QED
    BY <1>2 DEF Balances

\* Without an earlier deficit and without a reassessment of the year before, the
\* pages of a correction start with what the report had available.
LEMMA UnowedBalances ==
    ASSUME NEW b \in Bases, b.owed = NoBalance, NEW before, DOMAIN before = {}, NEW selection
    PROVE  /\ NewBalances(b, before) = Available(b)
           /\ OldBalances(b, before, selection).balance = Available(b)
           /\ OldBalances(b, before, selection).carried = NoBalance
<1>1. /\ b.start \in Debts /\ b.start \in Balances /\ b.activity \in Balances /\ b.pending \in Balances
      /\ NoBalance \in Balances
    BY NoBalanceTyped DEF Bases
<1>2. StartOfRows(b, before) = b.start
    <2> DEFINE start == [y \in Years |-> [c \in Classes |-> b.start[y][c] - b.owed[y][c]]]
    <2>1. StartOfRows(b, before) = start
        BY DEF StartOfRows
    <2>2. \A y \in Years, c \in Classes : b.start[y][c] - b.owed[y][c] = b.start[y][c]
                                          /\ b.start[y][c] \in Int
        BY <1>1, NoBalanceTyped DEF Balances
    <2>3. start \in Balances
        BY <2>2 DEF Balances
    <2>4. \A y \in Years, c \in Classes : start[y][c] = b.start[y][c]
        BY <2>2
    <2> HIDE DEF start
    <2> QED
        BY <1>1, <2>1, <2>3, <2>4, SameBalance
<1> DEFINE sum == Plus(Plus(b.start, b.activity), b.pending)
<1>3. sum \in Balances
    <2>1. Plus(b.start, b.activity) \in Balances
        BY <1>1, BalanceSums
    <2> QED
        BY <1>1, <2>1, BalanceSums
<1>4. sum = Available(b)
    BY DEF Available
<1>5. NewBalances(b, before) = Minus(sum, NoBalance)
    BY <1>2 DEF NewBalances
<1> HIDE DEF sum
<1>6. Minus(sum, NoBalance) = sum
    <2>1. Minus(sum, NoBalance) \in Balances
        BY <1>1, <1>3, BalanceSums
    <2>2. \A y \in Years, c \in Classes : Minus(sum, NoBalance)[y][c] = sum[y][c]
        <3>1. \A y \in Years, c \in Classes :
                 Minus(sum, NoBalance)[y][c] = sum[y][c] - NoBalance[y][c]
            BY DEF Minus
        <3>2. \A y \in Years, c \in Classes : sum[y][c] \in Int
            BY <1>3 DEF Balances
        <3>3. \A y \in Years, c \in Classes : NoBalance[y][c] = 0
            BY NoBalanceTyped
        <3> QED
            BY <3>1, <3>2, <3>3
    <2> QED
        BY <1>3, <2>1, <2>2, SameBalance
<1>7. PositivePart(b.start) = b.start
    BY <1>1 DEF PositivePart, Debts, Balances
<1>8. OldBalances(b, before, selection) = NewProvisionalBalance(Available(b), NoBalance, selection)
    BY <1>2, <1>7 DEF OldBalances, ObligationDetails, Available
<1> QED
    BY <1>4, <1>5, <1>6, <1>8, NothingOwed

\* Saved rows are what is taken from the credits that the earlier deficits leave,
\* whatever the class of the supplier.
LEMMA SavedReduces ==
    ASSUME NEW year \in Years, NEW saved, IsSaved(saved, year), NotNegative(Available(saved.basis))
    PROVE  LET b == saved.basis
               p == NewProvisionalBalance(Available(b), b.owed, saved.selection)
               q == CalculateCreditReduction(p.balance, saved.due["A"], saved.due["B"], saved.selection)
           IN  /\ p.balance \in Balances /\ NotNegative(p.balance)
               /\ saved.result.offset = p.offset /\ saved.result.carried = p.carried
               /\ \A y \in Years, c \in Classes :
                     /\ saved.result.classA[y] = q.classA[y]
                     /\ saved.result.unspecified[y][c] = q.unspecified[y][c]
                     /\ saved.result.ending[y][c] = q.ending[y][c]
                     /\ saved.result.deficit[c] = q.deficit[c]
<1>1. PICK b \in Bases, selection \in Selections, classA \in Nat, unspecified \in Nat :
          /\ saved = Saved(year, b, selection, classA, unspecified)
          /\ SupplierClass = "S" => classA = 0 /\ unspecified = 0
    BY DEF IsSaved
<1> DEFINE result == Reduce(b.start, b.owed, b.activity, b.pending, selection, classA, unspecified)
           p == NewProvisionalBalance(Available(b), b.owed, selection)
           q == CalculateCreditReduction(p.balance, classA, unspecified, selection)
           due == [c \in Classes |-> IF c = "A" THEN classA ELSE unspecified]
<1>2. /\ b.start \in Debts /\ b.start \in Balances /\ b.owed \in Debts
    BY NoBalanceTyped DEF Bases
<1>3. PositivePart(b.start) = b.start
    BY <1>2 DEF PositivePart, Debts, Balances
<1>4. ObligationDetails(b.start, b.owed, b.activity, b.pending, selection) = p
    BY <1>3 DEF ObligationDetails, Available
<1>5. saved = [saved |-> TRUE, year |-> year, basis |-> b, selection |-> selection,
               due |-> due, result |-> result]
    BY <1>1 DEF Saved
<1>6. due["A"] = classA /\ due["B"] = unspecified
    BY DEF Classes
<1>7. /\ result.offset = p.offset /\ result.carried = p.carried
      /\ SupplierClass # "S" => /\ result.classA = q.classA /\ result.unspecified = q.unspecified
                                /\ result.ending = q.ending /\ result.deficit = q.deficit
      /\ SupplierClass = "S" => /\ result.classA = [y \in Years |-> 0] /\ result.unspecified = NoBalance
                                /\ result.ending = p.balance /\ result.deficit = [c \in Classes |-> 0]
    <2> HIDE DEF p
    <2> QED
        BY <1>4 DEF Reduce
<1> HIDE DEF result, due
<1>8. saved.basis = b /\ saved.selection = selection /\ saved.due = due /\ saved.result = result
    BY <1>5
<1>9. Available(b) \in Balances /\ NotNegative(Available(b))
    BY <1>8, SavedIs
<1> DEFINE left == p.balance
<1>10. left \in Balances /\ UsedFrom(Available(b), left)
    BY <1>2, <1>9, NewProvisionalBalanceIs
<1>11. NotNegative(left)
    <2> HIDE DEF left
    <2>1. \A y \in Years, c \in Classes : left[y][c] \in Int /\ Available(b)[y][c] \in Int
        BY <1>9, <1>10 DEF Balances
    <2> QED
        BY <1>9, <1>10, <2>1 DEF UsedFrom, NotNegative
<1>12. \A y \in Years, c \in Classes :
          /\ result.classA[y] = q.classA[y] /\ result.unspecified[y][c] = q.unspecified[y][c]
          /\ result.ending[y][c] = q.ending[y][c] /\ result.deficit[c] = q.deficit[c]
    <2>1. CASE SupplierClass # "S"
        BY <1>7, <2>1
    <2>2. CASE SupplierClass = "S"
        <3> HIDE DEF left
        <3>1. q = CalculateCreditReduction(left, 0, 0, selection)
            BY <1>1, <2>2 DEF left
        <3>2. /\ \A y \in Years : q.classA[y] = 0
              /\ \A y \in Years, c \in Classes : q.unspecified[y][c] = 0 /\ q.ending[y][c] = left[y][c]
              /\ \A c \in Classes : q.deficit[c] = 0
            <4> HIDE DEF q
            <4> QED
                BY <1>10, <1>11, <3>1, NothingDue
        <3>3. result.ending = left
            BY <1>7, <2>2 DEF left
        <3> HIDE DEF q, p
        <3> QED
            BY <1>7, <2>2, <3>2, <3>3, NoBalanceTyped
    <2> QED
        BY <2>1, <2>2
<1> QED
    BY <1>6, <1>7, <1>8, <1>10, <1>11, <1>12

\* Without an earlier deficit nothing is offset.
LEMMA NothingOffset ==
    ASSUME NEW year \in Years, NEW saved, IsSaved(saved, year), NotNegative(Available(saved.basis)),
           saved.basis.owed = NoBalance
    PROVE  LET b == saved.basis
               q == CalculateCreditReduction(Available(b), saved.due["A"], saved.due["B"], saved.selection)
           IN  /\ saved.result.carried = NoBalance
               /\ \A y \in Years, c \in Classes :
                     /\ saved.result.offset[y][c] = 0
                     /\ saved.result.classA[y] = q.classA[y]
                     /\ saved.result.unspecified[y][c] = q.unspecified[y][c]
                     /\ saved.result.ending[y][c] = q.ending[y][c]
                     /\ saved.result.deficit[c] = q.deficit[c]
<1> DEFINE p == NewProvisionalBalance(Available(saved.basis), saved.basis.owed, saved.selection)
<1>1. p.balance = Available(saved.basis) /\ p.carried = NoBalance
    BY NothingOwed
<1>2. /\ saved.result.offset = p.offset /\ saved.result.carried = p.carried
      /\ \A y \in Years, c \in Classes :
           LET q == CalculateCreditReduction(p.balance, saved.due["A"], saved.due["B"], saved.selection)
           IN  /\ saved.result.classA[y] = q.classA[y]
               /\ saved.result.unspecified[y][c] = q.unspecified[y][c]
               /\ saved.result.ending[y][c] = q.ending[y][c]
               /\ saved.result.deficit[c] = q.deficit[c]
    BY SavedReduces
<1>3. \A y \in Years, c \in Classes : p.offset[y][c] = Available(saved.basis)[y][c] - p.balance[y][c]
    <2>1. Available(saved.basis) \in Balances /\ saved.selection \in Selections
          /\ saved.basis.owed \in Debts
        BY SavedIs, NoBalanceTyped
    <2> QED
        BY <2>1, NewProvisionalBalanceIs
<1> HIDE DEF p
<1>4. \A y \in Years, c \in Classes : Available(saved.basis)[y][c] \in Int
    <2>1. Available(saved.basis) \in Balances
        BY SavedIs
    <2> QED
        BY <2>1 DEF Balances
<1>5. \A y \in Years, c \in Classes : p.offset[y][c] = 0
    BY <1>1, <1>3, <1>4
<1> QED
    BY <1>1, <1>2, <1>5


-----------------------------------------------------------------------------
\* Issuing a reassessment that raises the sales

\* What is posted of r is what the sales of its reassessment s take.
LedgerRaised(s, r) ==
    LET new == Reduction(r, Available(RowsOfRecord(r).basis), supps[s].sales)
    IN  \A y \in Years, c \in Classes :
            /\ posted[r]["offset"][y][c] = 0
            /\ posted[r]["classA"][y][c] + posted[r]["unspecified"][y][c] + posted[r]["added"][y][c]
               = (IF c = "A" THEN new.classA[y] ELSE 0) + new.unspecified[y][c]
RaisedLedger == \A r \in Reports, s \in Supps : RaisesSales(s, r) => LedgerRaised(s, r)

\* The reassessment s of r is to be issued, and its sales are no fewer than those the
\* report was assessed for.
Raising(s, r) ==
    LET b == RowsOfRecord(r).basis
    IN  /\ AssessedFor(r, NewestSales(report[r])) /\ supps[s].sales >= NewestSales(report[r])
        /\ b.owed = NoBalance /\ NotNegative(Available(b))
        /\ DOMAIN supps[s].rows.before = {}

\* The two reductions that the director's page compares: what was taken, as it is
\* posted, and what the sales given take, of class A no less.
LEMMA ComparedReductions ==
    ASSUME ReportsTyped, Figured, History, SelectionsAgree, PostedIsAssessed,
           NEW r \in Reports, NEW s \in Supps, Assessed(r), IssuesAlone(s, r), Raising(s, r)
    PROVE  LET available == Available(RowsOfRecord(r).basis)
               was == Reduction(r, available, NewestSales(report[r]))
               now == Reduction(r, available, supps[s].sales)
           IN  /\ ReassessmentReductions(r, supps[s].rows, supps[s].sales)
                  = ConstructReassessmentReductions(now, was)
               /\ \A y \in Years :
                     was.classA[y] \in Nat /\ now.classA[y] \in Nat /\ was.classA[y] <= now.classA[y]
               /\ \A y \in Years, c \in Classes :
                     /\ was.unspecified[y][c] \in Nat /\ now.unspecified[y][c] \in Nat
                     /\ posted[r]["offset"][y][c] = 0 /\ posted[r]["added"][y][c] = 0
                     /\ posted[r]["classA"][y][c] = IF c = "A" THEN was.classA[y] ELSE 0
                     /\ posted[r]["unspecified"][y][c] = was.unspecified[y][c]
<1> DEFINE saved == RowsOfRecord(r)
           b == saved.basis
           available == Available(b)
           few == NewestSales(report[r])
           sales == supps[s].sales
           year == report[r].year
           selection == report[r].selection
           was == Reduction(r, available, few)
           now == Reduction(r, available, sales)
<1>1. year \in Years /\ selection \in Selections /\ few \in Nat
    BY RowsOf, GovSalesTyped DEF ReportsTyped
<1>2. IsSaved(saved, year)
    BY RecordIsSaved DEF Assessed
<1>3. b.owed = NoBalance /\ NotNegative(available) /\ sales >= few /\ AssessedFor(r, few)
    BY DEF Raising
<1>4. supps[s].report = r /\ Made(s) /\ supps[s].status = "RECOMMENDED"
    BY DEF IssuesAlone, Lone, Made
<1>5. sales \in Nat /\ sales # 0
    BY <1>4 DEF Figured, Figures
<1>6. saved.selection = selection
    <2>1. rows[r].gov # NoRows \/ rows[r].supplier # NoRows
        BY RowsOf DEF RowsOk, Assessed
    <2> QED
        BY <2>1 DEF SelectionsAgree, Agrees, RowsOfRecord
<1>7. /\ saved.due["A"] = ClassAReduction(few, year)
      /\ saved.due["B"] = UnspecifiedReductionBig(few, year)
    BY <1>3 DEF AssessedFor, Classes
<1>8. b \in Bases /\ available \in Balances
    BY <1>1, <1>2, SavedIs
<1> HIDE DEF saved, few, sales, year, selection
<1>9. /\ was = CalculateCreditReduction(available, ClassAReduction(few, year),
                   UnspecifiedReductionBig(few, year), selection)
      /\ now = CalculateCreditReduction(available, ClassAReduction(sales, year),
                   UnspecifiedReductionBig(sales, year), selection)
    BY DEF Reduction, year, selection
<1>10. SalesBefore(r) = few
    <2>1. \A t \in Of(r) : supps[t].status # "ASSESSED"
        <3>1. SUFFICES ASSUME NEW t \in Of(r), supps[t].status = "ASSESSED" PROVE FALSE
            OBVIOUS
        <3>2. t \in Supps /\ supps[t].report = r
            BY DEF Of
        <3>3. supps[t].gov
            BY <3>1, <3>2 DEF History
        <3>4. t = s
            BY <3>2, <3>3 DEF IssuesAlone, Lone
        <3> QED
            BY <1>4, <3>1, <3>4
    <2>2. {t \in Of(r) : supps[t].status = "ASSESSED"} = {}
        BY <2>1
    <2> QED
        BY <2>2 DEF SalesBefore, few
<1>11. Corrected(r, sales) = sales
    BY <1>5 DEF Corrected
<1>12. ReassessmentReductions(r, supps[s].rows, sales) = ConstructReassessmentReductions(now, was)
    <2> DEFINE before == supps[s].rows.before
    <2>1. DOMAIN before = {}
        BY DEF Raising
    <2> HIDE DEF before
    <2>2. NewBalances(b, before) = available /\ OldBalances(b, before, "none").balance = available
        BY <1>3, <1>8, <2>1, UnowedBalances
    <2>3. ReassessmentReductions(r, supps[s].rows, sales)
          = ConstructReassessmentReductions(
                Reduction(r, NewBalances(b, before), Corrected(r, sales)),
                Reduction(r, OldBalances(b, before, "none").balance, SalesBefore(r)))
        BY DEF ReassessmentReductions, before, saved
    <2> QED
        BY <1>10, <1>11, <2>2, <2>3
<1> HIDE DEF available, was, now
<1>13. ReductionTypes(was) /\ ReductionTypes(now)
    BY <1>1, <1>5, <1>8, ReductionTyped DEF was, now, available
<1>14. \A y \in Years : was.classA[y] \in Nat /\ now.classA[y] \in Nat /\ was.classA[y] <= now.classA[y]
    <2>1. ClassAReduction(few, year) <= ClassAReduction(sales, year)
        BY <1>1, <1>3, <1>5, ClassADueGrows
    <2>2. ClassAReduction(few, year) \in Nat /\ ClassAReduction(sales, year) \in Nat
        BY <1>1, <1>5, ReductionsDue
    <2>3. \A y \in Years : was.classA[y] <= now.classA[y]
        BY <1>8, <1>9, <2>1, <2>2, ClassATakenGrows DEF available
    <2> QED
        BY <1>13, <2>3 DEF ReductionTypes
<1>15. \A y \in Years, c \in Classes :
          /\ saved.result.offset[y][c] = 0 /\ saved.result.classA[y] = was.classA[y]
          /\ saved.result.unspecified[y][c] = was.unspecified[y][c]
    BY <1>1, <1>2, <1>3, <1>6, <1>7, <1>9, NothingOffset DEF available
<1>16. \A y \in Years, c \in Classes :
          was.unspecified[y][c] \in Nat /\ now.unspecified[y][c] \in Nat
    <2>1. \A y \in Years, c \in Classes : 0 <= now.unspecified[y][c]
        <3>1. ClassAReduction(sales, year) \in Nat /\ UnspecifiedReductionBig(sales, year) \in Nat
            BY <1>1, <1>5, ReductionsDue
        <3>2. CleanReduction(available, ClassAReduction(sales, year), UnspecifiedReductionBig(sales, year), now)
            <4>1. \A y \in Years, c \in Classes : available[y][c] >= 0
                BY <1>3 DEF NotNegative, available
            <4>2. available \in Balances
                BY <1>8 DEF available
            <4> QED
                BY <1>1, <1>9, <3>1, <4>1, <4>2, CalculateCreditReductionIs
        <3> QED
            BY <3>2 DEF CleanReduction
    <2>2. \A y \in Years, c \in Classes : saved.result.unspecified[y][c] \in Nat
        BY <1>1, <1>2, <1>3, CleanRow DEF available
    <2>3. \A y \in Years, c \in Classes : now.unspecified[y][c] \in Int
        BY <1>13 DEF ReductionTypes, Balances
    <2> QED
        BY <1>15, <2>1, <2>2, <2>3
<1>17. posted[r] = Taken(saved)
    <2>1. ~Reassessed(r)
        BY DEF IssuesAlone
    <2> QED
        BY <2>1 DEF PostedIsAssessed, saved
<1>18. \A y \in Years, c \in Classes :
          /\ posted[r]["offset"][y][c] = 0 /\ posted[r]["added"][y][c] = 0
          /\ posted[r]["classA"][y][c] = IF c = "A" THEN was.classA[y] ELSE 0
          /\ posted[r]["unspecified"][y][c] = was.unspecified[y][c]
    <2>1. /\ posted[r]["offset"] = saved.result.offset
          /\ posted[r]["unspecified"] = PositivePart(saved.result.unspecified)
          /\ posted[r]["added"] = NoBalance
          /\ \A y \in Years, c \in Classes :
                posted[r]["classA"][y][c] = IF c = "A" THEN saved.result.classA[y] ELSE 0
        BY <1>1, <1>2, <1>17, TakenTyped
    <2>2. \A y \in Years, c \in Classes :
             PositivePart(saved.result.unspecified)[y][c]
             = IF saved.result.unspecified[y][c] > 0 THEN saved.result.unspecified[y][c] ELSE 0
        BY DEF PositivePart
    <2>3. \A y \in Years, c \in Classes :
             PositivePart(saved.result.unspecified)[y][c] = was.unspecified[y][c]
        BY <1>15, <1>16, <2>2
    <2> QED
        BY <1>15, <2>1, <2>3, NoBalanceTyped
<1> QED
    BY <1>12, <1>14, <1>16, <1>18 DEF was, now, available, sales, few, saved


\* What is posted after the request that issues such a reassessment.
LEMMA IssueRaises ==
    ASSUME ReportsTyped, Figured, History, SelectionsAgree, PostedIsAssessed,
           NEW r \in Reports, NEW s \in Supps, Assessed(r), IssuesAlone(s, r), Raising(s, r)
    PROVE  LET new == Reduction(r, Available(RowsOfRecord(r).basis), supps[s].sales)
           IN  \A y \in Years, c \in Classes :
                   /\ posted'[r]["offset"][y][c] = 0
                   /\ posted'[r]["classA"][y][c] + posted'[r]["unspecified"][y][c]
                          + posted'[r]["added"][y][c]
                      = (IF c = "A" THEN new.classA[y] ELSE 0) + new.unspecified[y][c]
<1> DEFINE available == Available(RowsOfRecord(r).basis)
           was == Reduction(r, available, NewestSales(report[r]))
           now == Reduction(r, available, supps[s].sales)
           changes == ReassessmentReductions(r, supps[s].rows, supps[s].sales)
<1>1. /\ changes = ConstructReassessmentReductions(now, was)
      /\ \A y \in Years :
            was.classA[y] \in Nat /\ now.classA[y] \in Nat /\ was.classA[y] <= now.classA[y]
      /\ \A y \in Years, c \in Classes :
            /\ was.unspecified[y][c] \in Nat /\ now.unspecified[y][c] \in Nat
            /\ posted[r]["offset"][y][c] = 0 /\ posted[r]["added"][y][c] = 0
            /\ posted[r]["classA"][y][c] = IF c = "A" THEN was.classA[y] ELSE 0
            /\ posted[r]["unspecified"][y][c] = was.unspecified[y][c]
    BY ComparedReductions
<1> DEFINE new == [k \in Kinds |-> [y \in Years |-> [c \in Classes |-> AdjustedCell(r, changes, y, c)[k]]]]
<1>2. /\ \A y \in Years, c \in Classes :
            Found(r, {u \in changes : u.year = y /\ u.class = c /\ u.old # 0}) # {}
      /\ posted' = [posted EXCEPT ![r] = new]
    BY DEF IssuesAlone, Lone, AdjustCreditsReassessment
<1> HIDE DEF was, now, changes, available
<1>3. posted'[r] = new
    <2> HIDE DEF new
    <2> QED
        BY <1>2 DEF ReportsTyped, ReportsShape, IsFunctionOn
<1> SUFFICES ASSUME NEW y \in Years, NEW c \in Classes
             PROVE  /\ posted'[r]["offset"][y][c] = 0
                    /\ posted'[r]["classA"][y][c] + posted'[r]["unspecified"][y][c]
                           + posted'[r]["added"][y][c]
                       = (IF c = "A" THEN now.classA[y] ELSE 0) + now.unspecified[y][c]
    BY DEF now, available
<1> DEFINE cell == AdjustedCell(r, changes, y, c)
           a == IF c = "A" THEN was.classA[y] ELSE 0
           b == IF c = "A" THEN now.classA[y] ELSE 0
           m == was.unspecified[y][c]
           n == now.unspecified[y][c]
<1>4. \A k \in Kinds : posted'[r][k][y][c] = cell[k]
    BY <1>3
<1>5. a \in Nat /\ b \in Nat /\ m \in Nat /\ n \in Nat /\ (a > 0 => b > 0)
    BY <1>1
<1>6. /\ posted[r]["offset"][y][c] = 0 /\ posted[r]["classA"][y][c] = a
      /\ posted[r]["unspecified"][y][c] = m /\ posted[r]["added"][y][c] = 0
    BY <1>1
<1>7. \A u : u \in changes /\ u.year = y /\ u.class = c <=>
          \/ /\ u = [kind |-> "classA", year |-> y, class |-> c, old |-> a, new |-> b]
             /\ b > 0 /\ a # b
          \/ /\ u = [kind |-> "unspecified", year |-> y, class |-> c, old |-> m, new |-> n]
             /\ m # n
    <2> DEFINE ofA(z) == [kind |-> "classA", year |-> z, class |-> "A",
                          old |-> was.classA[z], new |-> now.classA[z]]
               un(z, d) == [kind |-> "unspecified", year |-> z, class |-> d,
                            old |-> was.unspecified[z][d], new |-> now.unspecified[z][d]]
    <2>1. \A u : u \in changes <=>
              \/ \E z \in Years : u = ofA(z) /\ now.classA[z] > 0 /\ now.classA[z] # was.classA[z]
              \/ \E z \in Years, d \in Classes :
                    u = un(z, d) /\ now.unspecified[z][d] # was.unspecified[z][d]
        <3> DEFINE onA == {ofA(z) : z \in {z \in Years : now.classA[z] > 0 /\ now.classA[z] # was.classA[z]}}
                   onU == {un(p[1], p[2]) : p \in {p \in Years \X Classes :
                              now.unspecified[p[1]][p[2]] # was.unspecified[p[1]][p[2]]}}
        <3>1. changes = onA \union onU
            BY <1>1 DEF ConstructReassessmentReductions
        <3>2. \A u : u \in onA <=>
                  \E z \in Years : u = ofA(z) /\ now.classA[z] > 0 /\ now.classA[z] # was.classA[z]
            <4> HIDE DEF ofA
            <4> QED
                OBVIOUS
        <3>3. \A u : u \in onU <=> \E z \in Years, d \in Classes :
                    u = un(z, d) /\ now.unspecified[z][d] # was.unspecified[z][d]
            <4> HIDE DEF un
            <4>1. \A z \in Years, d \in Classes : <<z, d>>[1] = z /\ <<z, d>>[2] = d
                OBVIOUS
            <4>2. \A z \in Years, d \in Classes : <<z, d>> \in Years \X Classes
                OBVIOUS
            <4>3. \A p \in Years \X Classes : p[1] \in Years /\ p[2] \in Classes
                OBVIOUS
            <4> DEFINE differs(z, d) == now.unspecified[z][d] # was.unspecified[z][d]
                       P == {p \in Years \X Classes : differs(p[1], p[2])}
            <4>4. \A u : u \in onU <=> \E p \in P : u = un(p[1], p[2])
                <5>1. onU = {un(p[1], p[2]) : p \in P}
                    OBVIOUS
                <5> HIDE DEF P, onU
                <5> QED
                    BY <5>1
            <4>5. \A p : p \in P <=> p \in Years \X Classes /\ differs(p[1], p[2])
                OBVIOUS
            <4> HIDE DEF P, onU, differs
            <4>6. \A u : u \in onU <=> \E z \in Years, d \in Classes : u = un(z, d) /\ differs(z, d)
                <5>1. ASSUME NEW u \in onU PROVE \E z \in Years, d \in Classes : u = un(z, d) /\ differs(z, d)
                    <6>1. PICK p \in P : u = un(p[1], p[2])
                        BY <4>4
                    <6> QED
                        BY <4>3, <4>5, <6>1
                <5>2. ASSUME NEW u, NEW z \in Years, NEW d \in Classes, u = un(z, d), differs(z, d)
                      PROVE  u \in onU
                    <6> DEFINE p == <<z, d>>
                    <6>1. p[1] = z /\ p[2] = d /\ p \in Years \X Classes
                        BY <4>1, <4>2
                    <6> HIDE DEF p
                    <6>2. p \in P /\ u = un(p[1], p[2])
                        BY <4>5, <5>2, <6>1
                    <6> QED
                        BY <4>4, <6>2
                <5> QED
                    BY <5>1, <5>2
            <4> QED
                BY <4>6 DEF differs
        <3> HIDE DEF onA, onU, ofA, un
        <3> QED
            BY <3>1, <3>2, <3>3
    <2>2. \A z : ofA(z).year = z /\ ofA(z).class = "A"
        OBVIOUS
    <2>3. \A z, d : un(z, d).year = z /\ un(z, d).class = d
        OBVIOUS
    <2>4. /\ c = "A" => ofA(y) = [kind |-> "classA", year |-> y, class |-> c, old |-> a, new |-> b]
          /\ un(y, c) = [kind |-> "unspecified", year |-> y, class |-> c, old |-> m, new |-> n]
        OBVIOUS
    <2>5. /\ [kind |-> "classA", year |-> y, class |-> c, old |-> a, new |-> b].year = y
          /\ [kind |-> "classA", year |-> y, class |-> c, old |-> a, new |-> b].class = c
        OBVIOUS
    <2>6. b > 0 => c = "A" /\ b = now.classA[y] /\ a = was.classA[y]
        OBVIOUS
    <2>7. \A u : (\E z \in Years : u = ofA(z) /\ now.classA[z] > 0 /\ now.classA[z] # was.classA[z])
                 /\ u.year = y /\ u.class = c
             <=> c = "A" /\ u = ofA(y) /\ now.classA[y] > 0 /\ now.classA[y] # was.classA[y]
        <3> HIDE DEF ofA
        <3> QED
            BY <2>2
    <2>8. \A u : (\E z \in Years, d \in Classes :
                      u = un(z, d) /\ now.unspecified[z][d] # was.unspecified[z][d])
                 /\ u.year = y /\ u.class = c
             <=> u = un(y, c) /\ m # n
        <3> HIDE DEF un
        <3> QED
            BY <2>3
    <2>9. c = "A" /\ now.classA[y] > 0 /\ now.classA[y] # was.classA[y] <=> b > 0 /\ a # b
        BY <2>6
    <2> HIDE DEF ofA, un, a, b, m, n
    <2> QED
        BY <2>1, <2>4, <2>7, <2>8, <2>9
<1>8. Found(r, {u \in changes : u.year = y /\ u.class = c /\ u.old # 0}) # {}
    BY <1>2
<1> HIDE DEF a, b, m, n
<1>9. cell["offset"] = 0 /\ cell["classA"] + cell["unspecified"] + cell["added"] = b + n
    BY <1>5, <1>6, <1>7, <1>8, CellSum
<1> HIDE DEF cell
<1>10. {"offset", "classA", "unspecified", "added"} \subseteq Kinds
    BY DEF Kinds
<1> QED
    BY <1>4, <1>9, <1>10 DEF b, n


\* What is said of a reassessment stays true while it and its report stay as they are.
LEMMA AsBefore ==
    ASSUME NEW CONSTANT r \in Reports, NEW CONSTANT s \in Supps, Lone(s, r)',
           report'[r] = report[r], rows'[r] = rows[r], posted'[r] = posted[r],
           \A t \in Supps : supps[t].report = r \/ supps'[t].report = r => supps'[t] = supps[t]
    PROVE  /\ Lone(s, r) /\ supps'[s] = supps[s]
           /\ RaisesSales(s, r)' => RaisesSales(s, r)
           /\ LedgerRaised(s, r) => LedgerRaised(s, r)'
<1>1. supps'[s] = supps[s] /\ Lone(s, r)
    <2>1. supps'[s].report = r
        BY DEF Lone
    <2>2. supps'[s] = supps[s]
        BY <2>1
    <2> QED
        BY <2>2 DEF Lone
<1>2. RaisesSales(s, r)' => RaisesSales(s, r)
    <2>1. AssessedFor(r, NewestSales(report[r]))' => AssessedFor(r, NewestSales(report[r]))
        BY DEF AssessedFor, RowsOfRecord, NewestSales
    <2>2. RowsOfRecord(r)' = RowsOfRecord(r) /\ NewestSales(report[r])' = NewestSales(report[r])
        BY DEF RowsOfRecord, NewestSales
    <2>3. ASSUME RaisesSales(s, r)' PROVE RaisesSales(s, r)
        <3>1. /\ supps[s].status = "ASSESSED" /\ AssessedFor(r, NewestSales(report[r]))
              /\ supps[s].sales >= NewestSales(report[r])
              /\ RowsOfRecord(r).basis.owed = NoBalance
              /\ DOMAIN supps[s].rows.before = {}
            BY <1>1, <2>1, <2>2, <2>3 DEF RaisesSales
        <3>2. NotNegative(Available(RowsOfRecord(r).basis))
            BY <2>2, <2>3 DEF RaisesSales, NotNegative, Available
        <3> QED
            BY <1>1, <3>1, <3>2 DEF RaisesSales, Lone
    <2> QED
        BY <2>3
<1>3. LedgerRaised(s, r) => LedgerRaised(s, r)'
    BY <1>1 DEF LedgerRaised, RowsOfRecord, Reduction, Available
<1> QED
    BY <1>1, <1>2, <1>3

LEMMA RaisedKept ==
    ASSUME Shape, Computed, Figured, History, SelectionsAgree, PostedIsAssessed,
           LoneIssued, RaisedLedger, History', [Next]_vars
    PROVE  LoneIssued' /\ RaisedLedger'
<1> SUFFICES ASSUME NEW CONSTANT r \in Reports, NEW CONSTANT s \in Supps, Lone(s, r)'
             PROVE  /\ Reassessed(r)' => supps'[s].status = "ASSESSED"
                    /\ RaisesSales(s, r)' => LedgerRaised(s, r)'
    <2>1. \A r, s : RaisesSales(s, r)' => Lone(s, r)'
        BY DEF RaisesSales, Lone
    <2>2. ASSUME \A r \in Reports, s \in Supps : Lone(s, r)' =>
                    /\ Reassessed(r)' => supps'[s].status = "ASSESSED"
                    /\ RaisesSales(s, r)' => LedgerRaised(s, r)'
          PROVE  LoneIssued' /\ RaisedLedger'
        BY <2>1, <2>2 DEF LoneIssued, RaisedLedger
    <2> QED
        BY <2>2
<1>1. ReportsTyped
    BY DEF ReportsTyped, Shape
<1>2. ASSUME report'[r] = report[r], rows'[r] = rows[r], posted'[r] = posted[r],
             \A t \in Supps : supps[t].report = r \/ supps'[t].report = r => supps'[t] = supps[t],
             Reassessed(r)' => Reassessed(r)
      PROVE  /\ Reassessed(r)' => supps'[s].status = "ASSESSED"
             /\ RaisesSales(s, r)' => LedgerRaised(s, r)'
    <2>1. /\ Lone(s, r) /\ supps'[s] = supps[s]
          /\ RaisesSales(s, r)' => RaisesSales(s, r)
          /\ LedgerRaised(s, r) => LedgerRaised(s, r)'
        BY <1>2, AsBefore
    <2>2. Reassessed(r)' => supps'[s].status = "ASSESSED"
        BY <1>2, <2>1 DEF LoneIssued
    <2>3. RaisesSales(s, r)' => LedgerRaised(s, r)'
        BY <2>1 DEF RaisedLedger
    <2> QED
        BY <2>2, <2>3
<1>3. CASE Stays
    <2>1. report' = report /\ rows' = rows /\ posted' = posted /\ supps' = supps /\ log' = log
        BY <1>3 DEF Stays, assessedVars, suppVars
    <2>2. Reassessed(r)' => Reassessed(r)
        BY <2>1 DEF Reassessed, Issues
    <2> QED
        BY <1>2, <2>1, <2>2
<1>4. CASE OfReport
    <2>1. PICK q \in Reports : ReportEffect(q) /\ UNCHANGED suppVars
        BY <1>4 DEF OfReport
    <2>2. supps' = supps /\ log' = log
        BY <2>1 DEF suppVars
    <2>3. r # q
        <3>1. supps[s].report = r
            BY <2>2 DEF Lone
        <3>2. Made(s)
            <4>1. r # 0
                BY ReportsAssumption
            <4> QED
                BY <3>1, <4>1 DEF History
        <3> QED
            BY <2>1, <3>1, <3>2 DEF Shape, OfAssessed, Made, Assessed, ReportEffect
    <2>4. report'[r] = report[r] /\ rows'[r] = rows[r]
        BY <2>1, <2>3 DEF ReportEffect
    <2>5. posted'[r] = posted[r]
        BY <2>1, <2>3 DEF ReportEffect, assessedVars, Shape, ReportsShape, IsFunctionOn
    <2>6. Reassessed(r)' => Reassessed(r)
        BY <2>2 DEF Reassessed, Issues
    <2> QED
        BY <1>2, <2>2, <2>4, <2>5, <2>6
<1>5. CASE OfRequest
    <2>1. PICK q \in Reports : Assessed(q) /\ Requests(q)
        BY <1>5 DEF OfRequest
    <2>2. report' = report /\ rows' = rows
        BY <1>5 DEF OfRequest, OfSupplemental
    <2>3. CASE q # r
        <3>1. /\ \A t \in Supps : supps[t].report = r \/ supps'[t].report = r => supps'[t] = supps[t]
              /\ posted'[r] = posted[r]
              /\ log' = log \/ \E e \in Entries : log' = Append(log, e) /\ supps'[e.supp].report = q
            <4>1. /\ \A t \in Supps : supps[t].report # q /\ supps'[t].report # q => supps'[t] = supps[t]
                  /\ posted'[r] = posted[r]
                  /\ log' = log \/ \E e \in Entries : log' = Append(log, e) /\ supps'[e.supp].report = q
                BY <2>1, <2>3, OthersKept
            <4>2. \A t \in Supps : Made(t) => supps'[t].report = supps[t].report
                BY <2>1, RequestEffect DEF Follows
            <4>3. \A t \in Supps : ~Made(t) => supps'[t] = supps[t] \/ supps'[t].report = q
                BY <2>1, RequestEffect DEF Begins
            <4>4. \A t \in Supps : ~Made(t) => supps[t].report = 0
                BY DEF History
            <4>5. r # 0 /\ q # 0
                BY ReportsAssumption
            <4> QED
                BY <2>3, <4>1, <4>2, <4>3, <4>4, <4>5
        <3>2. Reassessed(r)' => Reassessed(r)
            <4>1. SUFFICES ASSUME NEW i \in DOMAIN log', log'[i].gov, log'[i].status = "ASSESSED",
                                  supps'[log'[i].supp].report = r
                           PROVE  Reassessed(r)
                BY DEF Reassessed, Issues
            <4>2. log \in Seq(Entries) /\ \A j \in DOMAIN log : log[j].supp \in Supps
                BY LoggedAreMade
            <4>3. i \in DOMAIN log /\ log'[i] = log[i]
                <5>1. CASE log' = log
                    BY <5>1
                <5>2. ASSUME NEW e \in Entries, log' = Append(log, e), supps'[e.supp].report = q
                      PROVE  i \in DOMAIN log /\ log'[i] = log[i]
                    <6>1. (i \in DOMAIN log /\ log'[i] = log[i]) \/ log'[i] = e
                        BY <4>2, <5>2
                    <6> QED
                        BY <2>3, <4>1, <5>2, <6>1
                <5> QED
                    BY <3>1, <5>1, <5>2
            <4>4. supps[log[i].supp].report = r
                BY <3>1, <4>1, <4>2, <4>3
            <4> QED
                BY <4>1, <4>3, <4>4 DEF Reassessed, Issues
        <3> QED
            BY <1>2, <2>2, <3>1, <3>2
    <2>4. CASE q = r
        <3>1. CASE supps'[s].status # "ASSESSED" /\ ~Reassessed(r)'
            BY <3>1 DEF RaisesSales
        <3>2. CASE IssuesAlone(s, r)
            <4>1. /\ supps'[s].status = "ASSESSED"
                  /\ supps'[s].sales = supps[s].sales /\ supps'[s].rows = supps[s].rows
                BY <3>2 DEF IssuesAlone
            <4>2. ASSUME RaisesSales(s, r)' PROVE LedgerRaised(s, r)'
                <5>1. Raising(s, r)
                    <6>1. RowsOfRecord(r)' = RowsOfRecord(r) /\ NewestSales(report[r])' = NewestSales(report[r])
                        BY <2>2 DEF RowsOfRecord, NewestSales
                    <6>2. AssessedFor(r, NewestSales(report[r]))' => AssessedFor(r, NewestSales(report[r]))
                        BY <2>2 DEF AssessedFor, RowsOfRecord, NewestSales
                    <6>3. NotNegative(Available(RowsOfRecord(r).basis))
                        BY <4>2, <6>1 DEF RaisesSales, NotNegative, Available
                    <6> QED
                        BY <4>1, <4>2, <6>1, <6>2, <6>3 DEF RaisesSales, Raising
                <5> DEFINE new == Reduction(r, Available(RowsOfRecord(r).basis), supps[s].sales)
                <5>2. \A y \in Years, c \in Classes :
                         /\ posted'[r]["offset"][y][c] = 0
                         /\ posted'[r]["classA"][y][c] + posted'[r]["unspecified"][y][c]
                                + posted'[r]["added"][y][c]
                            = (IF c = "A" THEN new.classA[y] ELSE 0) + new.unspecified[y][c]
                    BY <1>1, <2>1, <2>4, <3>2, <5>1, IssueRaises
                <5>3. new' = new
                    BY <2>2, <4>1 DEF Reduction, RowsOfRecord, Available
                <5> HIDE DEF new
                <5>4. \A y \in Years, c \in Classes :
                         /\ posted'[r]["offset"][y][c] = 0
                         /\ posted'[r]["classA"][y][c] + posted'[r]["unspecified"][y][c]
                                + posted'[r]["added"][y][c]
                            = (IF c = "A" THEN new'.classA[y] ELSE 0) + new'.unspecified[y][c]
                    BY <5>2, <5>3
                <5> QED
                    BY <5>4 DEF LedgerRaised, new
            <4> QED
                BY <4>1, <4>2
        <3> QED
            BY <2>1, <2>4, <3>1, <3>2, LoneRequest
    <2> QED
        BY <2>3, <2>4
<1> QED
    BY <1>3, <1>4, <1>5, RequestKinds

\* A reassessment that is the only one of its report and raises the sales leaves posted
\* what the new sales take and nothing offset, and before it is issued the report has
\* not been reassessed.
THEOREM RaisedOnce == Spec => [](LoneIssued /\ RaisedLedger)
<1>1. ASSUME Init PROVE LoneIssued /\ RaisedLedger
    BY <1>1 DEF Init, LoneIssued, RaisedLedger, RaisesSales, Lone, NoSupp
<1>2. ASSUME Shape, Computed, Figured, History, SelectionsAgree, PostedIsAssessed,
             LoneIssued, RaisedLedger, History', [Next]_vars
      PROVE  LoneIssued' /\ RaisedLedger'
    BY <1>2, RaisedKept
<1> QED
    BY <1>1, <1>2, EverythingComputed, HistoryTold, SelectionOfRecord, ReductionsPosted, PTL DEF Spec

\* A reassessment that raises the sales leaves posted what the new sales take.
THEOREM ReassessmentsPosted == Spec => []ReassessedLedger
<1>1. RaisedLedger => ReassessedLedger
    BY DEF RaisedLedger, LedgerRaised, ReassessedLedger
<1> QED
    BY <1>1, RaisedOnce, PTL


-----------------------------------------------------------------------------
\* The page of the balance: what moved after the last reductions

LEMMA OldestIs ==
    ASSUME NEW S \in SUBSET Reports, S # {}
    PROVE  Oldest(S) \in S
<1>1. S \in SUBSET Nat
    BY ReportsAssumption
<1>2. \E n \in S : \A m \in S : n <= m
    BY <1>1, LeastNumber
<1> QED
    BY <1>2 DEF Oldest

\* For the periods after the last report that was assessed nothing is posted.
LEMMA NothingSpentAfter ==
    ASSUME ReportsTyped, OfAssessed, PostedIsAssessed, NEW r \in Existing,
           \A q \in Existing : Assessed(q) => report[q].year <= report[r].year,
           NEW p \in Years, p > report[r].year, NEW y \in Years, NEW c \in Classes
    PROVE  LeftIn(p, y, c) = credits[p][y][c] /\ credits[p][y][c] \in Int
<1> DEFINE of == {q \in Existing : report[q].year = p}
           q == Oldest(of)
<1>1. credits[p][y][c] \in Int
    BY DEF ReportsTyped, Computed, Movable, Balances
<1>2. CASE of = {}
    BY <1>1, <1>2 DEF LeftIn, SpentIn
<1>3. CASE of # {}
    <2>1. of \subseteq Reports
        BY DEF Existing
    <2>2. q \in of
        <3> HIDE DEF of
        <3> QED
            BY <1>3, <2>1, OldestIs
    <2>3. q \in Existing /\ q \in Reports /\ report[q].year = p
        BY <2>1, <2>2
    <2>4. report[r].year \in Int /\ p \in Int
        <3>1. r \in Reports
            BY DEF Existing
        <3>2. report[r].year \in Years
            BY <3>1, RowsOf
        <3> QED
            BY <3>2, YearsFacts
    <2> HIDE DEF q
    <2>5. ~Assessed(q)
        BY <2>3, <2>4
    <2>6. ~Reassessed(q)
        <3>1. SUFFICES ASSUME NEW i \in DOMAIN log, supps[log[i].supp].report = q PROVE FALSE
            BY DEF Reassessed, Issues
        <3>2. log \in Seq(Entries)
            BY DEF ReportsTyped, SuppsShape
        <3>3. log[i] \in Entries
            BY <3>2
        <3>4. Assessed(supps[log[i].supp].report)
            BY <3>1, <3>3 DEF OfAssessed, Entries
        <3> QED
            BY <2>5, <3>1, <3>4
    <2>7. posted[q] = [k \in Kinds |-> NoBalance]
        BY <2>3, <2>5, <2>6 DEF PostedIsAssessed
    <2>8. \A k \in {"offset", "classA", "unspecified", "added"} : posted[q][k][y][c] = 0
        BY <2>7, NoBalanceTyped DEF Kinds
    <2>9. TakenFor(q, y, c) = 0
        BY <2>8 DEF TakenFor
    <2>10. SpentIn(p, y, c) = 0
        BY <1>3, <2>9 DEF SpentIn, q
    <2> QED
        BY <1>1, <2>10 DEF LeftIn
<1> QED
    BY <1>2, <1>3

\* The whole ledger is that of the last report and what moved since.
LEMMA LedgerSince ==
    ASSUME ReportsTyped, OfAssessed, PostedIsAssessed, NEW r \in Existing,
           \A q \in Existing : Assessed(q) => report[q].year <= report[r].year,
           NEW y \in Years, NEW c \in Classes,
           \A p \in Years : p <= report[r].year => LeftIn(p, y, c) \in Int
    PROVE  /\ Ledger(LastYear)[y][c]
              = Total(UpTo(report[r].year, y, c)) + RecentBalances(r)[y][c]
           /\ Total(UpTo(report[r].year, y, c)) \in Int /\ RecentBalances(r)[y][c] \in Int
<1> DEFINE year == report[r].year
           recent == [p \in Years |-> IF p > year THEN credits[p][y][c] ELSE 0]
<1>1. year \in Years /\ \A p \in Years : p \in Int /\ p <= LastYear
    <2>1. r \in Reports
        BY DEF Existing
    <2>2. year \in Years
        BY <2>1, RowsOf
    <2>3. \A p \in Years : p \in Int /\ p <= LastYear
        BY YearsFacts
    <2> QED
        BY <2>2, <2>3
<1>2. \A p \in Years : p > year => LeftIn(p, y, c) = credits[p][y][c] /\ credits[p][y][c] \in Int
    BY NothingSpentAfter
<1>3. Ledger(LastYear)[y][c] = Total(UpTo(LastYear, y, c))
    BY LedgerIs
<1>4. RecentBalances(r)[y][c] = Total(recent)
    BY DEF RecentBalances
<1> HIDE DEF year
<1>5. \A p \in Years : p <= year => LeftIn(p, y, c) \in Int
    BY DEF year
<1>6. recent \in Amounts
    BY <1>1, <1>2 DEF Amounts
<1>7. \A n \in Int : \A p \in Years : UpTo(n, y, c)[p] = IF p <= n THEN LeftIn(p, y, c) ELSE 0
    BY DEF UpTo
<1>8. UpTo(year, y, c) \in Amounts
    <2>1. UpTo(year, y, c) = [p \in Years |-> IF p <= year THEN LeftIn(p, y, c) ELSE 0]
        BY DEF UpTo
    <2> QED
        BY <1>5, <2>1 DEF Amounts
<1>9. LastYear \in Int
    BY YearsAssumption
<1>10. UpTo(LastYear, y, c) \in Amounts
    <2>1. UpTo(LastYear, y, c) = [p \in Years |-> IF p <= LastYear THEN LeftIn(p, y, c) ELSE 0]
        BY DEF UpTo
    <2>2. \A p \in Years : LeftIn(p, y, c) \in Int
        BY <1>1, <1>2, <1>5
    <2> QED
        BY <2>1, <2>2 DEF Amounts
<1>11. ASSUME NEW p \in Years PROVE UpTo(LastYear, y, c)[p] = UpTo(year, y, c)[p] + recent[p]
    <2>1. recent[p] = IF p > year THEN credits[p][y][c] ELSE 0
        OBVIOUS
    <2> HIDE DEF recent
    <2>2. CASE p <= year
        BY <1>1, <1>5, <1>7, <1>9, <2>1, <2>2
    <2>3. CASE p > year
        BY <1>1, <1>2, <1>7, <1>9, <2>1, <2>3
    <2> QED
        BY <1>1, <2>2, <2>3
<1> HIDE DEF recent
<1>12. Total(UpTo(LastYear, y, c)) = Total(UpTo(year, y, c)) + Total(recent)
    BY <1>6, <1>8, <1>10, <1>11, TotalPlus
<1> QED
    BY <1>3, <1>4, <1>6, <1>8, <1>12, TotalType DEF year

\* The ledger of a report that starts where the one before it ended.
LEMMA LedgerOfUndisturbed ==
    ASSUME ReportsTyped, PostedIsAssessed, LedgerMatchesEnding, NEW r \in Existing,
           Assessed(r), Undisturbed(r),
           \A q \in Existing : report[q].year < report[r].year => Regular(q),
           NEW y \in Years, NEW c \in Classes, LeftIn(report[r].year, y, c) \in Int
    PROVE  /\ \A p \in Years : p <= report[r].year => LeftIn(p, y, c) \in Int
           /\ Total(UpTo(report[r].year, y, c))
              = RowsOfRecord(r).basis.start[y][c] + LeftIn(report[r].year, y, c)
<1> DEFINE year == report[r].year
           start == RowsOfRecord(r).basis.start
<1>1. r \in Reports /\ year \in Years /\ IsSaved(RowsOfRecord(r), year)
    BY RowsOf, RecordIsSaved DEF Existing, Assessed
<1>2. \A p \in Years : p \in Int /\ (p - 1 \in Years \/ p = FirstYear)
    BY YearsFacts
<1>3. \A q \in Existing : report[q].year \in Years
    <2> TAKE q \in Existing
    <2>1. q \in Reports
        BY DEF Existing
    <2> QED
        BY <2>1, RowsOf
<1> HIDE DEF year, start
<1>4. CASE year = FirstYear
    <2>1. start = NoBalance
        BY <1>1, <1>4, SavedIs DEF start
    <2>2. \A p \in Years : p <= year => p = year
        BY <1>4, YearsFacts
    <2>3. \A p \in Years : p <= year => LeftIn(p, y, c) \in Int
        BY <2>2 DEF year
    <2>4. Total(UpTo(year, y, c)) = LeftIn(year, y, c)
        BY <1>1, <1>4, <2>3, UpToGrows
    <2>5. NoBalance[y][c] = 0
        BY NoBalanceTyped
    <2> QED
        BY <2>1, <2>3, <2>4, <2>5 DEF year, start
<1>5. CASE year # FirstYear
    <2> DEFINE last == year - 1
    <2>1. last \in Years /\ last \in Int /\ year \in Int
        BY <1>1, <1>2, <1>5
    <2>2. PICK p \in Previous(r) : start = RowsOfRecord(p).result.ending
        BY <1>5 DEF Undisturbed, year, start
    <2>3. p \in Existing /\ report[p].year = last
        BY <2>2 DEF Previous, year
    <2> HIDE DEF last
    <2>4. ASSUME NEW q \in Existing, report[q].year <= last PROVE Regular(q)
        <3>1. report[q].year \in Int /\ year \in Int
            BY <1>1, <1>2, <1>3
        <3>2. report[q].year < year
            BY <2>4, <3>1 DEF last
        <3> QED
            BY <3>2 DEF year
    <2>5. Ledger(last) = start
        BY <2>2, <2>3, <2>4 DEF LedgerMatchesEnding
    <2>6. Total(UpTo(last, y, c)) = start[y][c]
        BY <2>5, LedgerIs
    <2>7. \A z \in Years : z <= last => LeftIn(z, y, c) \in Int
        BY <2>1, <2>4, LedgerGrows
    <2>8. \A z \in Years : z <= year => z <= last \/ z = year
        BY <1>2, <2>1 DEF last
    <2>9. \A z \in Years : z <= year => LeftIn(z, y, c) \in Int
        BY <2>7, <2>8 DEF year
    <2>10. Total(UpTo(year, y, c)) = Total(UpTo(last, y, c)) + LeftIn(year, y, c)
        BY <1>1, <2>1, <2>9, UpToGrows DEF last
    <2> QED
        BY <2>6, <2>9, <2>10 DEF year, start
<1> QED
    BY <1>4, <1>5


-----------------------------------------------------------------------------
\* The page of the balance: what the last reductions left

LEMMA NeverReassessed ==
    ASSUME History, NEW r, ~Reassessed(r)
    PROVE  MostRecentSupplemental(r) = 0
<1>1. SUFFICES ASSUME NEW i \in DOMAIN log, log[i].supp \in Of(r),
                      supps[log[i].supp].status = "ASSESSED"
               PROVE  FALSE
    BY DEF MostRecentSupplemental
<1>2. log[i].supp \in Supps /\ supps[log[i].supp].report = r
    BY <1>1 DEF Of
<1>3. PICK j \in DOMAIN log : log[j] = Entry(log[i].supp, "ASSESSED", TRUE)
    BY <1>1, <1>2 DEF History
<1>4. Issues(log[j], r)
    BY <1>2, <1>3 DEF Issues, Entry
<1> QED
    BY <1>4 DEF Reassessed

LEMMA ReassessedBy ==
    ASSUME Shape, History, NEW r \in Reports, NEW s \in Supps, RaisesSales(s, r)
    PROVE  MostRecentSupplemental(r) = s
<1> DEFINE issued == {i \in DOMAIN log : log[i].supp \in Of(r) /\ supps[log[i].supp].status = "ASSESSED"}
<1>1. supps[s].report = r /\ supps[s].status = "ASSESSED"
    BY DEF RaisesSales
<1>2. PICK j \in DOMAIN log : log[j] = Entry(s, "ASSESSED", TRUE)
    BY <1>1 DEF History
<1>3. j \in issued
    BY <1>1, <1>2 DEF Entry, Of
<1>4. ASSUME NEW i \in issued PROVE log[i].supp = s
    <2> DEFINE t == log[i].supp
    <2>1. t \in Supps /\ supps[t].report = r /\ supps[t].status = "ASSESSED"
        BY DEF Of
    <2>2. supps[t].gov
        BY <2>1 DEF History
    <2> QED
        BY <2>1, <2>2 DEF RaisesSales
<1>5. Len(log) \in Nat /\ issued \in SUBSET (1 .. Len(log))
    <2>1. log \in Seq(Entries)
        BY DEF Shape, SuppsShape
    <2> QED
        BY <2>1
<1>6. MostRecentSupplemental(r) = IF issued = {} THEN 0 ELSE log[Newest(issued)].supp
    BY DEF MostRecentSupplemental
<1> HIDE DEF issued
<1>7. Newest(issued) \in issued
    BY <1>3, <1>5, NewestIn
<1> QED
    BY <1>3, <1>4, <1>6, <1>7

\* What the page computes again from the saved rows is what was saved.
LEMMA PageOfPlain ==
    ASSUME ReportsTyped, SelectionsAgree, NEW r \in Existing, Plain(r)
    PROVE  /\ ReportBalances(r).balances = RowsOfRecord(r).result.ending
           /\ ReportBalances(r).deficits = Outstanding(RowsOfRecord(r))
<1> DEFINE saved == RowsOfRecord(r)
           b == saved.basis
           year == report[r].year
           selection == report[r].selection
           sales == GovSales(report[r])
           before == [y \in {} |-> 0]
           start == OldBalances(b, before, "none")
           p == NewProvisionalBalance(Available(b), b.owed, saved.selection)
           reduced == Reduction(r, start.balance, sales)
           q == CalculateCreditReduction(p.balance, saved.due["A"], saved.due["B"], saved.selection)
<1>1. Assessed(r) /\ Undisturbed(r)
    BY DEF Plain, Regular
<1>2. r \in Reports /\ year \in Years /\ IsSaved(saved, year) /\ b \in Bases /\ NotNegative(Available(b))
    BY <1>1, UndisturbedBasis
<1>3. saved.selection = selection /\ selection \in Selections
    <2>1. rows[r].gov # NoRows \/ rows[r].supplier # NoRows
        BY <1>1, <1>2, RowsOf DEF RowsOk, Assessed
    <2>2. saved.selection = selection
        BY <1>2, <2>1 DEF SelectionsAgree, Agrees, RowsOfRecord
    <2> QED
        BY <1>2, <2>2, RowsOf
<1>4. /\ Apart(b) /\ (b.owed = NoBalance \/ selection # "A")
      /\ saved.due["A"] = ClassAReduction(sales, year)
      /\ saved.due["B"] = UnspecifiedReductionBig(sales, year)
    BY DEF Plain, AssessedFor, Classes
<1> HIDE DEF saved, selection, sales, year
<1>5. /\ b.start \in Debts /\ b.start \in Balances /\ b.owed \in Debts /\ b.owed \in Balances
      /\ b.activity \in Balances /\ b.pending \in Balances
    BY <1>2, NoBalanceTyped DEF Bases
<1>6. start = NewProvisionalBalance(Available(b), b.owed, "none")
    <2>1. StartOfRows(b, before) = Minus(b.start, b.owed)
        BY DEF StartOfRows, Minus
    <2>2. PositivePart(Minus(b.start, b.owed)) = b.start
        <3> DEFINE net == Minus(b.start, b.owed)
        <3>1. /\ net \in Balances /\ \A y \in Years, c \in Classes :
                    /\ b.start[y][c] \in Nat /\ b.owed[y][c] \in Nat
                    /\ net[y][c] = b.start[y][c] - b.owed[y][c]
            <4>1. \A y \in Years, c \in Classes : b.start[y][c] \in Nat /\ b.owed[y][c] \in Nat
                BY <1>5 DEF Debts, Balances
            <4> QED
                BY <1>5, <4>1, BalanceSums
        <3>2. \A y \in Years, c \in Classes : b.start[y][c] = 0 \/ b.owed[y][c] = 0
            BY <1>4 DEF Apart
        <3> HIDE DEF net
        <3>3. /\ PositivePart(net) \in Balances
              /\ \A y \in Years, c \in Classes :
                    PositivePart(net)[y][c] = IF net[y][c] > 0 THEN net[y][c] ELSE 0
            BY <3>1, BalanceSums
        <3>4. ASSUME NEW y \in Years, NEW c \in Classes PROVE PositivePart(net)[y][c] = b.start[y][c]
            <4>1. /\ b.start[y][c] \in Nat /\ b.owed[y][c] \in Nat
                  /\ net[y][c] = b.start[y][c] - b.owed[y][c]
                  /\ b.start[y][c] = 0 \/ b.owed[y][c] = 0
                  /\ PositivePart(net)[y][c] = IF net[y][c] > 0 THEN net[y][c] ELSE 0
                BY <3>1, <3>2, <3>3
            <4> QED
                BY <4>1
        <3> QED
            BY <1>5, <3>3, <3>4, SameBalance DEF net
    <2> QED
        BY <2>1, <2>2 DEF OldBalances, ObligationDetails, Available
<1> HIDE DEF before, start
<1>7. start.balance = p.balance /\ start.carried = p.carried
    <2>1. CASE b.owed = NoBalance
        BY <1>6, <2>1, NothingOwed
    <2>2. CASE selection # "A"
        BY <1>3, <1>6, <2>2 DEF NewProvisionalBalance
    <2> QED
        BY <1>4, <2>1, <2>2
<1>8. reduced = q
    BY <1>3, <1>4, <1>7 DEF Reduction, year, selection
<1>9. /\ p.balance \in Balances /\ saved.result.carried = p.carried
      /\ \A y \in Years, c \in Classes :
            saved.result.ending[y][c] = q.ending[y][c] /\ saved.result.deficit[c] = q.deficit[c]
    BY <1>2, SavedReduces
<1>10. saved.result.ending = q.ending
    <2>1. saved.result.ending \in Balances
        BY <1>2, SavedIs DEF Reduced, ReductionTypes
    <2>2. saved.due["A"] \in Nat /\ saved.due["B"] \in Nat
        BY <1>2, SavedIs
    <2>3. ReductionTypes(q)
        BY <1>3, <1>9, <2>2, CalculateCreditReductionIs
    <2>4. q.ending \in Balances
        BY <2>3 DEF ReductionTypes
    <2> HIDE DEF p, q
    <2> QED
        BY <1>9, <2>1, <2>4, SameBalance
<1>11. ReportBalances(r) =
          [balances |-> reduced.ending,
           deficits |-> [y \in Years |-> [c \in Classes |->
               start.carried[y][c] + IF y = year THEN reduced.deficit[c] ELSE 0]]]
    BY DEF ReportBalances, start, before, saved, year, sales
<1> HIDE DEF p, q, reduced
<1>12. ReportBalances(r).balances = saved.result.ending
    BY <1>8, <1>10, <1>11
<1>13. ReportBalances(r).deficits = Outstanding(saved)
    <2>1. saved.year = year
        BY <1>2, SavedIs
    <2>2. \A c \in Classes : saved.result.deficit[c] = reduced.deficit[c]
        BY <1>2, <1>8, <1>9
    <2> QED
        BY <1>7, <1>9, <1>11, <2>1, <2>2 DEF Outstanding
<1> QED
    BY <1>12, <1>13 DEF saved


LEMMA LedgerAddsUp ==
    ASSUME NEW b, NEW recent,
           \A y \in Years, c \in Classes : Ledger(LastYear)[y][c] = b[y][c] + recent[y][c]
    PROVE  Plus(b, recent) = Ledger(LastYear)
<1>1. Ledger(LastYear) = [y \in Years |-> [c \in Classes |-> Ledger(LastYear)[y][c]]]
    BY LedgerIs
<1> QED
    BY <1>1 DEF Plus

\* What is shown after a report that was issued for its sales of record.
LEMMA PlainShown ==
    ASSUME Shape, Computed, History, SelectionsAgree, PostedIsAssessed, LedgerMatchesEnding,
           NEW r \in Existing, Plain(r),
           \A q \in Existing : report[q].year < report[r].year => Regular(q),
           \A q \in Existing : Assessed(q) => report[q].year <= report[r].year
    PROVE  LET shown == BalanceShown(AssessedBalances(r), RecentBalances(r))
               left == Outstanding(RowsOfRecord(r))
           IN  /\ shown.deficits = left
               /\ InDeficit(left) = {} => shown.credits = Ledger(LastYear)
               /\ InDeficit(left) = {"A"} =>
                     Column(shown.credits, "B") = Column(Ledger(report[r].year), "B")
<1> DEFINE ending == RowsOfRecord(r).result.ending
           left == Outstanding(RowsOfRecord(r))
           recent == RecentBalances(r)
           assessed == AssessedBalances(r)
           shown == BalanceShown(assessed, recent)
           year == report[r].year
<1>1. ReportsTyped /\ OfAssessed
    BY DEF ReportsTyped, Shape
<1>2. Regular(r)
    BY DEF Plain
<1>3. year \in Years /\ ending \in Balances
    BY <1>1, <1>2, RegularEnds
<1>4. ASSUME NEW q \in Existing, report[q].year <= year PROVE Regular(q)
    <2>1. q \in Reports
        BY DEF Existing
    <2>2. report[q].year \in Years
        BY <1>1, <2>1, RowsOf
    <2>3. report[q].year \in Int /\ year \in Int
        BY <1>3, <2>2, YearsFacts
    <2>4. CASE report[q].year = year
        BY <1>2, <2>4 DEF Regular, Undisturbed, OnlyOfItsYear
    <2>5. CASE report[q].year < year
        BY <2>5
    <2> QED
        BY <1>4, <2>3, <2>4, <2>5
<1>5. Ledger(year) = ending
    BY <1>4 DEF LedgerMatchesEnding
<1>6. assessed.balances = ending /\ assessed.deficits = left
    <2>1. MostRecentSupplemental(r) = 0
        BY <1>2, NeverReassessed DEF Regular
    <2> QED
        BY <1>1, <2>1, PageOfPlain DEF AssessedBalances
<1> HIDE DEF assessed
<1>7. shown.deficits = left
    BY <1>6 DEF BalanceShown
<1>8. ASSUME InDeficit(left) = {} PROVE shown.credits = Ledger(LastYear)
    <2>1. shown.credits = Plus(ending, recent)
        BY <1>6, <1>8 DEF BalanceShown
    <2>2. ASSUME NEW y \in Years, NEW c \in Classes
          PROVE  Ledger(LastYear)[y][c] = ending[y][c] + recent[y][c]
        <3>1. \A p \in Years : p <= year => LeftIn(p, y, c) \in Int
            BY <1>1, <1>3, <1>4, LedgerGrows
        <3>2. Ledger(LastYear)[y][c] = Total(UpTo(year, y, c)) + recent[y][c]
            BY <1>1, <3>1, LedgerSince
        <3>3. Total(UpTo(year, y, c)) = ending[y][c]
            BY <1>5, LedgerIs
        <3> QED
            BY <3>2, <3>3
    <2> QED
        BY <2>1, <2>2, LedgerAddsUp
<1>9. ASSUME InDeficit(left) = {"A"} PROVE Column(shown.credits, "B") = Column(Ledger(year), "B")
    <2>1. InDeficit(left) # {}
        BY <1>9
    <2>2. shown.credits = WithColumn(NoBalance, "B", Column(ending, "B"))
        BY <1>6, <1>9, <2>1 DEF BalanceShown
    <2>3. "B" \in Classes
        BY DEF Classes
    <2>4. Column(ending, "B") \in Amounts
        BY <1>3, <2>3, ColumnType
    <2>5. Column(WithColumn(NoBalance, "B", Column(ending, "B")), "B") = Column(ending, "B")
        BY <2>3, <2>4, NoBalanceTyped, WithColumnIs
    <2> QED
        BY <1>5, <2>2, <2>5
<1> QED
    BY <1>7, <1>8, <1>9 DEF assessed

\* What is shown after a reassessment that raised the sales.
LEMMA RaisedShown ==
    ASSUME Shape, Computed, Figured, History, PostedIsAssessed, LedgerMatchesEnding, RaisedLedger,
           NEW r \in Existing, Assessed(r), Raised(r),
           \A q \in Existing : report[q].year < report[r].year => Regular(q),
           \A q \in Existing : Assessed(q) => report[q].year <= report[r].year
    PROVE  BalanceShown(AssessedBalances(r), RecentBalances(r)).credits = Ledger(LastYear)
<1> DEFINE b == RowsOfRecord(r).basis
           year == report[r].year
           recent == RecentBalances(r)
<1>1. ReportsTyped /\ OfAssessed
    BY DEF ReportsTyped, Shape
<1>2. Undisturbed(r)
    BY DEF Raised
<1>3. PICK s \in Supps : RaisesSales(s, r)
    BY DEF Raised
<1>4. /\ r \in Reports /\ year \in Years /\ b \in Bases /\ NotNegative(Available(b))
      /\ \A y \in Years, c \in Classes :
            /\ b.start[y][c] \in Nat /\ credits[year][y][c] \in Nat
            /\ Available(b)[y][c] = b.start[y][c] + credits[year][y][c]
            /\ SpentIn(year, y, c) = TakenFor(r, y, c)
    BY <1>1, <1>2, UndisturbedBasis
<1> DEFINE sales == supps[s].sales
           new == Reduction(r, Available(b), sales)
           ending == supps[s].rows.ending
           classA == ClassAReduction(sales, year)
           unspecified == UnspecifiedReductionBig(sales, year)
<1>5. /\ supps[s].report = r /\ Made(s) /\ b.owed = NoBalance /\ DOMAIN supps[s].rows.before = {}
    BY <1>3 DEF RaisesSales, Made
<1>6. sales \in Nat /\ ending = new.ending
    <2>1. /\ sales \in Nat
          /\ ending = Reduction(r, NewBalances(b, supps[s].rows.before), sales).ending
        BY <1>5 DEF Figured, Figures
    <2>2. NewBalances(b, supps[s].rows.before) = Available(b)
        BY <1>4, <1>5, UnowedBalances
    <2> QED
        BY <2>1, <2>2
<1>7. ReductionTypes(new) /\ CleanReduction(Available(b), classA, unspecified, new)
    <2>1. classA \in Nat /\ unspecified \in Nat
        BY <1>4, <1>6, ReductionsDue
    <2>2. Available(b) \in Balances
        BY <1>4, BalanceSums, NoBalanceTyped DEF Available, Bases
    <2>3. report[r].selection \in Selections
        BY <1>1, <1>4, RowsOf
    <2>4. \A y \in Years, c \in Classes : Available(b)[y][c] >= 0
        BY <1>4 DEF NotNegative
    <2>5. new = CalculateCreditReduction(Available(b), classA, unspecified, report[r].selection)
        BY DEF Reduction
    <2> HIDE DEF new, classA, unspecified
    <2> QED
        BY <2>1, <2>2, <2>3, <2>4, <2>5, CalculateCreditReductionIs
<1>8. \A y \in Years, c \in Classes :
          /\ posted[r]["offset"][y][c] = 0
          /\ posted[r]["classA"][y][c] + posted[r]["unspecified"][y][c] + posted[r]["added"][y][c]
             = (IF c = "A" THEN new.classA[y] ELSE 0) + new.unspecified[y][c]
    BY <1>3, <1>4 DEF RaisedLedger, LedgerRaised
<1> HIDE DEF new, b, year, ending
<1>9. ASSUME NEW y \in Years, NEW c \in Classes
      PROVE  LeftIn(year, y, c) \in Int /\ ending[y][c] = b.start[y][c] + LeftIn(year, y, c)
    <2>1. posted[r] \in [Kinds -> Balances]
        BY <1>1, <1>4 DEF ReportsTyped, Computed, Adjustable
    <2>2. \A k \in Kinds : posted[r][k][y][c] \in Int
        BY <2>1 DEF Balances
    <2>3. /\ posted[r]["offset"][y][c] \in Int /\ posted[r]["classA"][y][c] \in Int
          /\ posted[r]["unspecified"][y][c] \in Int /\ posted[r]["added"][y][c] \in Int
        BY <2>2 DEF Kinds
    <2>4. TakenFor(r, y, c) = (IF c = "A" THEN new.classA[y] ELSE 0) + new.unspecified[y][c]
          /\ TakenFor(r, y, c) \in Int
        <3>1. posted[r]["offset"][y][c] = 0
              /\ posted[r]["classA"][y][c] + posted[r]["unspecified"][y][c] + posted[r]["added"][y][c]
                 = (IF c = "A" THEN new.classA[y] ELSE 0) + new.unspecified[y][c]
            BY <1>8
        <3> QED
            BY <2>3, <3>1 DEF TakenFor
    <2>5. ending[y][c] = Available(b)[y][c] - (IF c = "A" THEN new.classA[y] ELSE 0) - new.unspecified[y][c]
        BY <1>6, <1>7 DEF CleanReduction
    <2>6. new.classA[y] \in Int /\ new.unspecified[y][c] \in Int
        BY <1>7 DEF ReductionTypes, Balances
    <2>7. /\ b.start[y][c] \in Nat /\ credits[year][y][c] \in Nat
          /\ Available(b)[y][c] = b.start[y][c] + credits[year][y][c]
          /\ SpentIn(year, y, c) = TakenFor(r, y, c)
        BY <1>4
    <2>8. LeftIn(year, y, c) = credits[year][y][c] - TakenFor(r, y, c)
        BY <2>7 DEF LeftIn
    <2> QED
        BY <2>4, <2>5, <2>6, <2>7, <2>8
<1>10. ASSUME NEW y \in Years, NEW c \in Classes
       PROVE  Ledger(LastYear)[y][c] = ending[y][c] + recent[y][c]
    <2>1. /\ \A p \in Years : p <= year => LeftIn(p, y, c) \in Int
          /\ Total(UpTo(year, y, c)) = b.start[y][c] + LeftIn(year, y, c)
        BY <1>1, <1>2, <1>9, LedgerOfUndisturbed DEF b, year
    <2>2. Ledger(LastYear)[y][c] = Total(UpTo(year, y, c)) + recent[y][c]
        BY <1>1, <2>1, LedgerSince DEF year
    <2> QED
        BY <1>9, <2>1, <2>2
<1>11. BalanceShown(AssessedBalances(r), recent).credits = Plus(ending, recent)
    <2>1. MostRecentSupplemental(r) = s
        BY <1>3, <1>4, ReassessedBy
    <2>2. s # 0
        BY DEF Supps
    <2>3. AssessedBalances(r).balances = ending /\ AssessedBalances(r).deficits = NoBalance
        BY <2>1, <2>2 DEF AssessedBalances, ActivityBalances, ending
    <2>4. InDeficit(NoBalance) = {}
        BY NoBalanceTyped DEF InDeficit
    <2> QED
        BY <2>3, <2>4 DEF BalanceShown
<1> QED
    BY <1>10, <1>11, LedgerAddsUp

\* The balance page tells the truth.
THEOREM BalanceTold == Spec => []BalancePageAgrees
<1>1. ASSUME Shape, Computed, Figured, History, SelectionsAgree, PostedIsAssessed,
             LedgerMatchesEnding, RaisedLedger
      PROVE  BalancePageAgrees
    <2>1. LastReduced \subseteq Existing /\ \A r \in LastReduced : Assessed(r)
        BY DEF LastReduced, HasReductions, Assessed
    <2> QED
        BY <1>1, <2>1, PlainShown, RaisedShown DEF BalancePageAgrees
<1> QED
    BY <1>1, EverythingComputed, HistoryTold, SelectionOfRecord, ReductionsPosted,
       CreditsAreThere, RaisedOnce, PTL


-----------------------------------------------------------------------------
\* The history: which entries of it are shown, and which is passed over

EntriesOf(s) == {i \in DOMAIN log : log[i].supp = s}
Shown(i, gov) ==
    /\ ~gov => log[i].status # "RECOMMENDED"
    /\ log[i].status = "DRAFT" => log[i].gov = gov

\* The entry j was returned right after i was submitted, for all that is shown.
Hidden(r, i, j) ==
    /\ i \in Seen(r, TRUE) /\ j \in Seen(r, TRUE)
    /\ i < j /\ log[i].status = "SUBMITTED" /\ log[j].status = "RETURNED"
    /\ ~ \E k \in Seen(r, TRUE) : i < k /\ k < j
Left(r, gov) == IF gov THEN Seen(r, TRUE) \ PassedOver(Seen(r, TRUE)) ELSE Seen(r, FALSE)

\* What the history says of the supplemental reports it is about: those of the
\* government are never submitted, those of the supplier only written otherwise
\* by a return, which makes a draft; the newest entry of one that is there gives
\* its status; and they were made in the order of their keys.
EntryKinds ==
    \A i \in DOMAIN log :
        IF supps[log[i].supp].gov THEN log[i].gov /\ log[i].status # "SUBMITTED"
        ELSE log[i].status \in {"DRAFT", "SUBMITTED", "DELETED"} /\ (log[i].gov => log[i].status = "DRAFT")
NewestEntry(s, i) == i \in EntriesOf(s) /\ \A m \in EntriesOf(s) : m <= i
StatusTold ==
    \A s \in Supps : Made(s) =>
        \E i \in DOMAIN log : /\ NewestEntry(s, i)
                              /\ supps[s].status \in {"REMOVED", "DELETED"} \/ supps[s].status = log[i].status
EndsTold == \A i \in DOMAIN log : log[i].status = "DELETED" => supps[log[i].supp].status = "DELETED"
InOrder == \A j \in DOMAIN log, s \in Supps : s < log[j].supp => \E i \in EntriesOf(s) : i < j
Kept == EntryKinds /\ StatusTold /\ EndsTold /\ InOrder

-----------------------------------------------------------------------------
\* What a step does to the supplemental reports and to the history

SentBy(gov) == IF gov THEN SentStatuses \ {"SUBMITTED"} ELSE {"DRAFT", "SUBMITTED", "DELETED"}
Same(t) ==
    supps'[t].report = supps[t].report /\ supps'[t].gov = supps[t].gov /\ supps'[t].link = supps[t].link

Adds(w, r, gov, status) ==
    /\ ~Made(w) /\ \A t \in Supps : t < w => Made(t)
    /\ supps'[w].report = r /\ supps'[w].gov = gov /\ supps'[w].status = status
    /\ supps'[w].link = LatestFor(r, gov)
    /\ log' = Append(log, Entry(w, status, gov))
    /\ \A t \in Supps \ {w} : supps'[t] = supps[t]

Saves(w, r, gov, status) ==
    /\ w \in Of(r) /\ w = LatestFor(r, gov)
    /\ Same(w) /\ supps'[w].status = status
    /\ log' = Append(log, Entry(w, status, gov))
    /\ \A t \in Supps \ {w} :
          \/ supps'[t] = supps[t]
          \/ /\ status = "SUBMITTED" /\ t \in Of(r) /\ supps[t].gov /\ supps[t].status = "DRAFT"
             /\ Same(t) /\ supps'[t].status = "DELETED"
    /\ status = "SUBMITTED" =>
          \A t \in Of(r) \ {w} : supps[t].gov /\ supps[t].status = "DRAFT" => supps'[t].status = "DELETED"

Drops(w, r, gov) ==
    /\ w \in Of(r) /\ w = LatestFor(r, gov) /\ supps[w].gov = gov
    /\ supps[w].status # "ASSESSED"
    /\ Same(w) /\ supps'[w].status = "REMOVED"
    /\ log' = log
    /\ \A t \in Supps \ {w} : supps'[t] = supps[t]

\* A page of r from which something is sent.
GovOffers(u) ==
    /\ Listed(u, TRUE)
    /\ \/ DirectorOffers(u)
       \/ \E shown \in ActualStatus(u, TRUE) : AnalystMayEdit(u, shown) \/ AnalystReturns(u, shown)
Sends(r, gov) == \E u \in Of(r) : IF gov THEN GovOffers(u) ELSE SupplierOffers(u)

\* A new one is made from a page when the latest is not of the same side.
AddsOne(w, r, gov, status) ==
    /\ Adds(w, r, gov, status)
    /\ status # "DRAFT" =>
          Sends(r, gov) /\ (LatestFor(r, gov) = 0 \/ supps[LatestFor(r, gov)].gov # gov)
\* One of the other side is only written when the analyst returns it.
SavesOne(w, r, gov, status) ==
    /\ Saves(w, r, gov, status) /\ Sends(r, gov) /\ status # "DELETED"
    /\ \/ supps[w].gov = gov
       \/ gov /\ ~supps[w].gov /\ supps[w].status = "SUBMITTED" /\ status = "DRAFT"
DropsOne(w, r, gov) == Drops(w, r, gov) /\ Sends(r, gov)

Acts(w, r, gov) ==
    \/ \E status \in SentBy(gov) : AddsOne(w, r, gov, status) \/ SavesOne(w, r, gov, status)
    \/ DropsOne(w, r, gov)

LEMMA SaveLatestIs ==
    ASSUME SuppsShape, NEW r, NEW w \in Of(r), NEW gov \in BOOLEAN, w = LatestFor(r, gov),
           NEW status \in SentStatuses, NEW sales, NEW given,
           SaveLatest(w, r, gov, status, sales, given)
    PROVE  Saves(w, r, gov, status)
<1>1. w \in Supps /\ \A t \in Supps : IsSupp(supps[t])
    BY OfIsMade DEF SuppsShape
<1> DEFINE new == [supps[w] EXCEPT !.status = status, !.sales = sales, !.rows = given]
           ends(t) == t # w /\ status = "SUBMITTED" /\ t \in Of(r) /\ supps[t].gov /\ supps[t].status = "DRAFT"
           ended(t) == [supps[t] EXCEPT !.status = "DELETED"]
<1>2. /\ new.report = supps[w].report /\ new.gov = supps[w].gov /\ new.link = supps[w].link
      /\ new.status = status
    <2>1. new = [report |-> supps[w].report, gov |-> supps[w].gov, status |-> status,
                 link |-> supps[w].link, sales |-> sales, rows |-> given]
        <3>1. status \in SuppStatuses /\ IsSupp(supps[w])
            BY <1>1, Sent
        <3> DEFINE x == supps[w]
        <3>2. IsSupp(x)
            BY <3>1
        <3> HIDE DEF x
        <3>3. [x EXCEPT !.status = status, !.sales = sales, !.rows = given]
              = [report |-> x.report, gov |-> x.gov, status |-> status, link |-> x.link,
                 sales |-> sales, rows |-> given]
            BY <3>1, <3>2, Rewritten
        <3> QED
            BY <3>3 DEF x
    <2> QED
        BY <2>1
<1>3. \A t \in Supps : /\ ended(t).report = supps[t].report /\ ended(t).gov = supps[t].gov
                       /\ ended(t).link = supps[t].link /\ ended(t).status = "DELETED"
    <2> TAKE t \in Supps
    <2>1. ended(t) = [report |-> supps[t].report, gov |-> supps[t].gov, status |-> "DELETED",
                      link |-> supps[t].link, sales |-> supps[t].sales, rows |-> supps[t].rows]
        BY <1>1, Ended DEF SuppStatuses
    <2> QED
        BY <2>1
<1>4. supps' = [t \in Supps |-> IF t = w THEN new ELSE IF ends(t) THEN ended(t) ELSE supps[t]]
    BY DEF SaveLatest
<1>5. log' = Append(log, Entry(w, status, gov))
    BY DEF SaveLatest
<1> HIDE DEF new, ended
<1>6. supps'[w] = new
    BY <1>1, <1>4
<1>7. \A t \in Supps \ {w} : supps'[t] = supps[t] \/ (ends(t) /\ supps'[t] = ended(t))
    BY <1>4
<1>8. Same(w) /\ supps'[w].status = status
    BY <1>2, <1>6 DEF Same
<1>9. ASSUME NEW t \in Supps \ {w}
      PROVE  \/ supps'[t] = supps[t]
             \/ /\ status = "SUBMITTED" /\ t \in Of(r) /\ supps[t].gov /\ supps[t].status = "DRAFT"
                /\ Same(t) /\ supps'[t].status = "DELETED"
    BY <1>3, <1>7 DEF Same
<1>10. ASSUME status = "SUBMITTED", NEW t \in Of(r) \ {w}, supps[t].gov, supps[t].status = "DRAFT"
       PROVE  supps'[t].status = "DELETED"
    <2>1. t \in Supps \ {w} /\ ends(t)
        BY <1>10, OfIsMade
    <2>2. supps'[t] = ended(t)
        BY <1>4, <2>1
    <2> QED
        BY <1>3, <2>1, <2>2
<1> QED
    BY <1>5, <1>8, <1>9, <1>10 DEF Saves

LEMMA MakeNewIs ==
    ASSUME SuppsShape, NEW r, NEW gov \in BOOLEAN, NEW status \in SentStatuses, NEW sales, NEW given,
           MakeNew(r, gov, status, sales, given)
    PROVE  \E w \in Supps : Adds(w, r, gov, status)
<1> DEFINE new == [report |-> r, gov |-> gov, status |-> status, link |-> LatestFor(r, gov),
                   sales |-> sales, rows |-> given]
<1>1. PICK w \in Supps :
          /\ ~Made(w) /\ \A t \in Supps : t < w => Made(t)
          /\ supps' = [supps EXCEPT ![w] = new]
          /\ log' = Append(log, Entry(w, status, gov))
    BY DEF MakeNew, Made
<1>2. /\ new.report = r /\ new.gov = gov /\ new.status = status /\ new.link = LatestFor(r, gov)
    OBVIOUS
<1> HIDE DEF new
<1>3. supps'[w] = new /\ \A t \in Supps \ {w} : supps'[t] = supps[t]
    BY <1>1 DEF SuppsShape, IsFunctionOn
<1> QED
    BY <1>1, <1>2, <1>3 DEF Adds

LEMMA SaveActs ==
    ASSUME SuppsShape, Kept, NEW r, NEW gov \in BOOLEAN, Sends(r, gov),
           NEW status \in SentBy(gov), NEW sales, NEW given, NEW changes,
           SupplementalSave(r, gov, status, sales, given, changes)
    PROVE  \E w \in Supps : Acts(w, r, gov)
<1> DEFINE latest == LatestFor(r, gov)
           again == latest # 0 /\ status = "RETURNED" /\ NewestStatus(latest) = "RETURNED"
           own == latest # 0 /\ supps[latest].gov = gov
<1>0. status \in SentStatuses
    BY DEF SentBy, SentStatuses, Statuses
<1>1. latest # 0 => latest \in Of(r) /\ latest \in Supps /\ Made(latest)
    BY LatestIsOf, OfIsMade
<1>2. \/ /\ again
         /\ supps' = [supps EXCEPT ![latest].status = "RETURNED"]
         /\ log' = Append(log, Entry(latest, status, gov))
      \/ own /\ RemoveLatest(latest)
      \/ own /\ status # "DELETED" /\ SaveLatest(latest, r, gov, status, sales, given)
      \/ ~own /\ MakeNew(r, gov, status, sales, given)
    BY DEF SupplementalSave
<1>3. latest = LatestFor(r, gov)
    OBVIOUS
<1>4. ASSUME again
      PROVE  gov /\ supps[latest].gov
    <2>1. gov
        BY <1>4 DEF SentBy
    <2> DEFINE S == {i \in DOMAIN log : log[i].supp = latest}
    <2>2. S # {} /\ S \in SUBSET DOMAIN log /\ DOMAIN log = 1 .. Len(log) /\ Len(log) \in Nat
        BY <1>1, <1>4 DEF Kept, StatusTold, NewestEntry, EntriesOf, SuppsShape
    <2>3. Newest(S) \in S
        BY <2>2, NewestIn
    <2>4. log[Newest(S)].status = "RETURNED"
        BY <1>4 DEF NewestStatus
    <2> QED
        BY <2>1, <2>3, <2>4 DEF Kept, EntryKinds
<1> HIDE DEF latest
<1>5. CASE /\ again
           /\ supps' = [supps EXCEPT ![latest].status = "RETURNED"]
           /\ log' = Append(log, Entry(latest, status, gov))
    <2>1. SaveLatest(latest, r, gov, "RETURNED", supps[latest].sales, supps[latest].rows)
        BY <1>0, <1>1, <1>5, StatusIsSaved
    <2>2. Saves(latest, r, gov, status)
        BY <1>0, <1>1, <1>3, <1>5, <2>1, SaveLatestIs
    <2>3. SavesOne(latest, r, gov, status)
        BY <1>4, <1>5, <2>2 DEF SavesOne
    <2> QED
        BY <1>1, <1>5, <2>3 DEF Acts
<1>6. CASE own /\ RemoveLatest(latest)
    <2> DEFINE new == [supps[latest] EXCEPT !.status = "REMOVED"]
    <2>1. IsSupp(supps[latest])
        BY <1>1, <1>6 DEF SuppsShape
    <2>2. new = [report |-> supps[latest].report, gov |-> supps[latest].gov, status |-> "REMOVED",
                 link |-> supps[latest].link, sales |-> supps[latest].sales, rows |-> supps[latest].rows]
        BY <2>1, Ended DEF SuppStatuses
    <2>3. /\ new.report = supps[latest].report /\ new.gov = supps[latest].gov
          /\ new.link = supps[latest].link /\ new.status = "REMOVED"
        BY <2>2
    <2>4. supps' = [supps EXCEPT ![latest] = new]
        BY <1>6 DEF RemoveLatest, SuppsShape, IsFunctionOn
    <2> HIDE DEF new
    <2>5. supps'[latest] = new /\ \A t \in Supps \ {latest} : supps'[t] = supps[t]
        BY <1>1, <1>6, <2>4 DEF SuppsShape, IsFunctionOn
    <2>6. Drops(latest, r, gov)
        BY <1>1, <1>3, <1>6, <2>3, <2>5 DEF Drops, Same, RemoveLatest
    <2> QED
        BY <1>1, <1>6, <2>6 DEF Acts, DropsOne
<1>7. CASE own /\ status # "DELETED" /\ SaveLatest(latest, r, gov, status, sales, given)
    <2>1. Saves(latest, r, gov, status)
        BY <1>0, <1>1, <1>3, <1>7, SaveLatestIs
    <2>2. SavesOne(latest, r, gov, status)
        BY <1>7, <2>1 DEF SavesOne
    <2> QED
        BY <1>1, <1>7, <2>2 DEF Acts
<1>8. CASE ~own /\ MakeNew(r, gov, status, sales, given)
    <2>1. PICK w \in Supps : Adds(w, r, gov, status)
        BY <1>0, <1>8, MakeNewIs
    <2>2. AddsOne(w, r, gov, status)
        BY <1>3, <1>8, <2>1 DEF AddsOne
    <2> QED
        BY <2>2 DEF Acts
<1> QED
    BY <1>2, <1>5, <1>6, <1>7, <1>8

\* A step of the supplemental reports is one of these.
LEMMA StepActs ==
    ASSUME Shape, Kept, SupplementalStep
    PROVE  \E r \in Reports, gov \in BOOLEAN : \E w \in Supps : Acts(w, r, gov)
<1>1. SuppsShape
    BY DEF Shape
<1>2. \A s \in Supps : Made(s) => supps[s].report \in Reports
    BY DEF Shape, OfAssessed, Made
<1>3. \A s : Listed(s, TRUE) \/ Listed(s, FALSE) => s \in Of(supps[s].report)
    BY DEF Listed
<1>4. /\ {"DRAFT", "RETURNED", "RECOMMENDED", "ASSESSED", "DELETED"} \subseteq SentBy(TRUE)
      /\ {"DRAFT", "SUBMITTED", "DELETED"} = SentBy(FALSE)
    BY DEF SentBy, SentStatuses, Statuses
<1>5. ASSUME NEW r \in Existing, NEW gov \in BOOLEAN, NEW sales \in LdvSales,
             CreateSupplemental(r, gov, sales)
      PROVE  \E q \in Reports, g \in BOOLEAN : \E w \in Supps : Acts(w, q, g)
    <2>1. r \in Reports
        BY DEF Existing
    <2>2. PICK given : MakeNew(r, gov, "DRAFT", sales, given)
        BY <1>5 DEF CreateSupplemental
    <2>3. PICK w \in Supps : Adds(w, r, gov, "DRAFT")
        BY <1>1, <2>2, MakeNewIs DEF SentStatuses, Statuses
    <2>4. AddsOne(w, r, gov, "DRAFT")
        BY <2>3 DEF AddsOne
    <2>5. "DRAFT" \in SentBy(gov)
        BY <1>4
    <2> QED
        BY <2>1, <2>4, <2>5 DEF Acts
<1>6. ASSUME NEW s \in Supps, Made(s), SupplierOffers(s), NEW status \in {"DRAFT", "SUBMITTED", "DELETED"},
             NEW sales, SupplierEdits(s, status, sales)
      PROVE  \E q \in Reports, g \in BOOLEAN : \E w \in Supps : Acts(w, q, g)
    <2> DEFINE r == supps[s].report
    <2>1. PICK given : SupplementalSave(r, FALSE, status, sales, given, {})
        BY <1>6 DEF SupplierEdits
    <2>2. Sends(r, FALSE)
        BY <1>3, <1>6 DEF Sends, SupplierOffers
    <2>3. r \in Reports
        BY <1>2, <1>6
    <2> HIDE DEF r
    <2>4. \E w \in Supps : Acts(w, r, FALSE)
        BY <1>1, <1>4, <1>6, <2>1, <2>2, SaveActs
    <2> QED
        BY <2>3, <2>4
<1>7. ASSUME NEW s \in Supps, Made(s), Listed(s, TRUE), NEW shown \in ActualStatus(s, TRUE),
             NEW status \in {shown, "RECOMMENDED", "DELETED"}, NEW sales,
             AnalystEdits(s, shown, status, sales)
      PROVE  \E q \in Reports, g \in BOOLEAN : \E w \in Supps : Acts(w, q, g)
    <2> DEFINE r == supps[s].report
    <2>1. PICK given : SupplementalSave(r, TRUE, Requested(status, TRUE), sales, given, {})
        BY <1>7 DEF AnalystEdits
    <2>2. AnalystMayEdit(s, shown)
        BY <1>7 DEF AnalystEdits, AnalystOffers
    <2>3. Sends(r, TRUE)
        BY <1>3, <1>7, <2>2 DEF Sends, GovOffers
    <2>4. r \in Reports
        BY <1>2, <1>7
    <2>5. Requested(status, TRUE) \in SentBy(TRUE)
        <3>1. shown \in SentStatuses
            BY <1>7, ActualStatusMade
        <3> QED
            BY <1>4, <3>1, <1>7 DEF Requested, SentBy
    <2> HIDE DEF r
    <2>6. \E w \in Supps : Acts(w, r, TRUE)
        BY <1>1, <2>1, <2>3, <2>5, SaveActs
    <2> QED
        BY <2>4, <2>6
<1>8. ASSUME NEW s \in Supps, Made(s), Listed(s, TRUE), NEW shown \in ActualStatus(s, TRUE),
             ReturnSupplemental(s, shown)
      PROVE  \E q \in Reports, g \in BOOLEAN : \E w \in Supps : Acts(w, q, g)
    <2> DEFINE r == supps[s].report
               latest == LatestFor(r, TRUE)
    <2>1. AnalystReturns(s, shown)
        BY <1>8 DEF ReturnSupplemental
    <2>2. Sends(r, TRUE)
        BY <1>3, <1>8, <2>1 DEF Sends, GovOffers
    <2>3. r \in Reports
        BY <1>2, <1>8
    <2>4. CASE latest # 0 /\ supps[latest].status = "SUBMITTED"
        <3>1. latest \in Of(r) /\ latest \in Supps /\ Made(latest)
            BY <1>1, <2>4, LatestIsOf, OfIsMade
        <3>2. /\ supps' = [supps EXCEPT ![latest].status = "DRAFT"]
              /\ log' = Append(log, Entry(latest, "DRAFT", TRUE))
            BY <1>8, <2>4 DEF ReturnSupplemental
        <3>3. latest = LatestFor(r, TRUE)
            OBVIOUS
        <3> HIDE DEF latest, r
        <3>4. SaveLatest(latest, r, TRUE, "DRAFT", supps[latest].sales, supps[latest].rows)
            BY <1>1, <1>4, <3>1, <3>2, StatusIsSaved DEF SentStatuses, Statuses
        <3>5. Saves(latest, r, TRUE, "DRAFT")
            BY <1>1, <3>1, <3>3, <3>4, SaveLatestIs DEF SentStatuses, Statuses
        <3>6. SavesOne(latest, r, TRUE, "DRAFT")
            <4>1. supps[latest].gov \in BOOLEAN
                BY <1>1, <3>1 DEF SuppsShape, IsSupp
            <4> QED
                BY <2>2, <2>4, <3>5, <4>1 DEF SavesOne
        <3>7. Acts(latest, r, TRUE)
            BY <1>4, <3>6 DEF Acts
        <3> QED
            BY <2>3, <3>1, <3>7
    <2>5. CASE ~(latest # 0 /\ supps[latest].status = "SUBMITTED")
        <3>1. SupplementalSave(r, TRUE, "DRAFT", supps[s].sales, supps[s].rows, {})
            BY <1>8, <2>5 DEF ReturnSupplemental
        <3> HIDE DEF latest, r
        <3>2. \E w \in Supps : Acts(w, r, TRUE)
            BY <1>1, <1>4, <2>2, <3>1, SaveActs
        <3> QED
            BY <2>3, <3>2
    <2> QED
        BY <2>4, <2>5
<1>9. ASSUME NEW s \in Supps, Made(s), DirectorOffers(s),
             NEW status \in {"RETURNED", "RECOMMENDED", "ASSESSED"}, DirectorDecides(s, status)
      PROVE  \E q \in Reports, g \in BOOLEAN : \E w \in Supps : Acts(w, q, g)
    <2> DEFINE r == supps[s].report
    <2>1. PICK sales, given, changes : SupplementalSave(r, TRUE, status, sales, given, changes)
        BY <1>9 DEF DirectorDecides
    <2>2. Sends(r, TRUE)
        BY <1>3, <1>9 DEF Sends, GovOffers, DirectorOffers
    <2>3. r \in Reports
        BY <1>2, <1>9
    <2> HIDE DEF r
    <2>4. \E w \in Supps : Acts(w, r, TRUE)
        BY <1>1, <1>4, <1>9, <2>1, <2>2, SaveActs
    <2> QED
        BY <2>3, <2>4
<1> QED
    BY <1>5, <1>6, <1>7, <1>8, <1>9 DEF SupplementalStep, Made

LEMMA EntryIs ==
    ASSUME NEW s, NEW status, NEW gov
    PROVE  /\ Entry(s, status, gov).supp = s /\ Entry(s, status, gov).status = status
           /\ Entry(s, status, gov).gov = gov
           /\ s \in Supps /\ status \in SentStatuses /\ gov \in BOOLEAN => Entry(s, status, gov) \in Entries
BY DEF Entry, Entries

\* An entry is added at the end.
LEMMA Appended ==
    ASSUME log \in Seq(Entries), NEW e \in Entries, log' = Append(log, e)
    PROVE  /\ Len(log) + 1 \in Nat /\ log'[Len(log) + 1] = e
           /\ DOMAIN log' = DOMAIN log \union {Len(log) + 1}
           /\ \A i \in DOMAIN log : i \in Nat /\ i < Len(log) + 1 /\ log'[i] = log[i]
OBVIOUS

LEMMA PlacesAre ==
    ASSUME Shape
    PROVE  /\ DOMAIN log = 1 .. Len(log) /\ Len(log) \in Nat
           /\ \A i \in DOMAIN log : i \in Nat /\ log[i] \in Entries
           /\ Supps \subseteq Nat \ {0}
BY SupplementalsAssumption DEF Shape, SuppsShape, Supps

LEMMA SentByIs ==
    ASSUME NEW gov \in BOOLEAN, NEW status \in SentBy(gov)
    PROVE  status \in SentStatuses /\ status # "NONE" /\ status # "REMOVED"
BY Sent DEF SentBy, SentStatuses, Statuses

\* What is written, and for what.
Adding(w, status, gov) == log' = Append(log, Entry(w, status, gov)) /\ supps'[w].status = status
Effect(w, r, gov) ==
    /\ supps'[w].report = r /\ (Made(w) => w \in Of(r))
    /\ \A t \in Supps : Made(t) => Same(t) /\ supps'[t].status # "NONE"
    /\ \A t \in Supps : ~Made(t) => t = w \/ supps'[t] = supps[t]
    /\ log' = log \/ \E status \in SentBy(gov) : Adding(w, status, gov)
    /\ \A t \in Supps, q \in Reports : t \in Of(q)' => t \in Of(q) \/ (t = w /\ ~Made(w) /\ q = r)
    /\ \A t \in Supps, q \in Reports \ {r} : t \in Of(q)' <=> t \in Of(q)
LEMMA ActsOn ==
    ASSUME Shape, NEW r, NEW gov \in BOOLEAN, NEW w \in Supps, Acts(w, r, gov)
    PROVE  Effect(w, r, gov)
<1>1. ASSUME NEW t \in Supps, supps'[t] = supps[t]
      PROVE  Same(t) /\ (Made(t) => supps'[t].status # "NONE") /\ \A q : t \in Of(q)' <=> t \in Of(q)
    BY <1>1 DEF Same, Made, Of
<1>2. CASE \E status \in SentBy(gov) : AddsOne(w, r, gov, status)
    <2>1. PICK status \in SentBy(gov) : Adds(w, r, gov, status)
        BY <1>2 DEF AddsOne
    <2>2. \A t \in Supps : Made(t) => supps'[t] = supps[t]
        BY <2>1 DEF Adds
    <2>3. Adding(w, status, gov) /\ supps'[w].report = r /\ ~Made(w)
        BY <2>1 DEF Adds, Adding
    <2>4. \A q : w \in Of(q)' => q = r
        BY <2>3 DEF Of
    <2>5. \A t \in Supps \ {w} : supps'[t] = supps[t]
        BY <2>1 DEF Adds
    <2>6. \A t \in Supps, q \in Reports : t \in Of(q)' => t \in Of(q) \/ (t = w /\ ~Made(w) /\ q = r)
        BY <1>1, <2>3, <2>4, <2>5
    <2>7. \A t \in Supps, q \in Reports \ {r} : t \in Of(q)' <=> t \in Of(q)
        <3>1. \A q : w \notin Of(q)
            BY <2>3, OfIsMade
        <3> QED
            BY <1>1, <2>4, <2>5, <3>1
    <2> QED
        BY <1>1, <2>2, <2>3, <2>5, <2>6, <2>7 DEF Effect
<1>3. CASE \E status \in SentBy(gov) : SavesOne(w, r, gov, status)
    <2>1. PICK status \in SentBy(gov) : Saves(w, r, gov, status)
        BY <1>3 DEF SavesOne
    <2>2. Adding(w, status, gov) /\ Same(w) /\ w \in Of(r) /\ status # "NONE" /\ Made(w)
        BY <2>1, SentByIs, OfIsMade DEF Saves, Adding
    <2>3. supps'[w].report = r /\ supps'[w].status # "NONE"
        BY <2>2 DEF Same, Of, Adding
    <2>4. ASSUME NEW t \in Supps \ {w}, supps'[t] # supps[t]
          PROVE  /\ Same(t) /\ supps'[t].status = "DELETED" /\ t \in Of(r)
                 /\ \A q : t \notin Of(q)' /\ (q # r => t \notin Of(q))
        BY <2>1, <2>4 DEF Saves, Of
    <2>5. \A q : w \in Of(q)' => q = r
        BY <2>3 DEF Of
    <2>6. \A q : q # r => w \notin Of(q)
        BY <2>2 DEF Of
    <2>7. \A t \in Supps : Made(t) => Same(t) /\ supps'[t].status # "NONE"
        BY <1>1, <2>2, <2>3, <2>4
    <2>8. \A t \in Supps, q \in Reports : t \in Of(q)' => t \in Of(q)
        BY <1>1, <2>2, <2>4, <2>5
    <2>9. \A t \in Supps, q \in Reports \ {r} : t \in Of(q)' <=> t \in Of(q)
        BY <1>1, <2>4, <2>5, <2>6
    <2>10. \A t \in Supps : ~Made(t) => supps'[t] = supps[t]
        BY <2>2, <2>4, OfIsMade
    <2> QED
        BY <2>2, <2>3, <2>7, <2>8, <2>9, <2>10 DEF Effect
<1>4. CASE DropsOne(w, r, gov)
    <2>1. Drops(w, r, gov)
        BY <1>4 DEF DropsOne
    <2>2. /\ w \in Of(r) /\ Same(w) /\ supps'[w].status = "REMOVED" /\ log' = log
          /\ \A t \in Supps \ {w} : supps'[t] = supps[t]
        BY <2>1 DEF Drops
    <2>3. supps'[w].report = r /\ Made(w)
        BY <2>2, OfIsMade DEF Same, Of
    <2>4. \A q : w \notin Of(q)' /\ (q # r => w \notin Of(q))
        BY <2>2 DEF Of
    <2> QED
        BY <1>1, <2>2, <2>3, <2>4 DEF Effect
<1> QED
    BY <1>2, <1>3, <1>4 DEF Acts

LEMMA KeptKept ==
    ASSUME Shape, Kept, NEW r, NEW gov \in BOOLEAN, NEW w \in Supps, Acts(w, r, gov)
    PROVE  Kept'
<1>1. /\ \A t \in Supps : Made(t) => Same(t) /\ supps'[t].status # "NONE"
      /\ \A t \in Supps : ~Made(t) => t = w \/ supps'[t] = supps[t]
      /\ log' = log \/ \E status \in SentBy(gov) : Adding(w, status, gov)
      /\ Made(w) => w \in Of(r)
    <2>1. Effect(w, r, gov)
        BY ActsOn
    <2> QED
        BY <2>1 DEF Effect
<1>2. \A j \in DOMAIN log : log[j].supp \in Supps /\ Made(log[j].supp)
    BY LoggedAreMade
<1>3. log \in Seq(Entries)
    BY DEF Shape, SuppsShape
<1> PICK n : n = Len(log) + 1
    OBVIOUS
<1>4. ASSUME NEW status \in SentBy(gov), Adding(w, status, gov)
      PROVE  /\ n \in Nat /\ DOMAIN log' = DOMAIN log \union {n}
             /\ log'[n].supp = w /\ log'[n].status = status /\ log'[n].gov = gov
             /\ \A i \in DOMAIN log : i \in Nat /\ i < n /\ log'[i] = log[i]
    <2> DEFINE e == Entry(w, status, gov)
    <2>1. e \in Entries /\ e.supp = w /\ e.status = status /\ e.gov = gov
        BY EntryIs, SentByIs
    <2>2. log' = Append(log, e)
        BY <1>4 DEF Adding
    <2> HIDE DEF e
    <2> QED
        BY <1>3, <2>1, <2>2, Appended
<1>5. /\ \A i \in DOMAIN log : i \in DOMAIN log' /\ log'[i] = log[i]
      /\ \A i \in DOMAIN log' : i \in DOMAIN log \/ (i = n /\ log'[n].supp = w)
    BY <1>1, <1>4
<1>10. ASSUME log' = log
       PROVE  DropsOne(w, r, gov)
    <2>1. ASSUME NEW status \in SentBy(gov), log' = Append(log, Entry(w, status, gov))
          PROVE  FALSE
        <3>1. Len(log') = Len(log) + 1 /\ Len(log) \in Nat
            BY <1>3, <2>1
        <3> QED
            BY <1>10, <3>1
    <2> QED
        BY <2>1 DEF Acts, AddsOne, Adds, SavesOne, Saves
<1>6. EntryKinds'
    <2> SUFFICES ASSUME NEW i \in DOMAIN log'
                 PROVE  IF supps'[log'[i].supp].gov THEN log'[i].gov /\ log'[i].status # "SUBMITTED"
                        ELSE /\ log'[i].status \in {"DRAFT", "SUBMITTED", "DELETED"}
                             /\ log'[i].gov => log'[i].status = "DRAFT"
        BY DEF EntryKinds
    <2>1. CASE i \in DOMAIN log
        BY <1>1, <1>2, <1>5, <2>1 DEF Kept, EntryKinds, Same
    <2>2. CASE i \notin DOMAIN log
        <3>1. PICK status \in SentBy(gov) : Adding(w, status, gov)
            BY <1>1, <2>2
        <3>2. i = n /\ log'[i].supp = w /\ log'[i].status = status /\ log'[i].gov = gov
            BY <1>4, <2>2, <3>1
        <3>3. CASE \E st \in SentBy(gov) : AddsOne(w, r, gov, st)
            <4>1. supps'[w].gov = gov
                BY <3>3 DEF AddsOne, Adds
            <4> QED
                BY <3>2, <4>1 DEF SentBy
        <3>4. CASE \E st \in SentBy(gov) : SavesOne(w, r, gov, st)
            <4>1. PICK st \in SentBy(gov) : SavesOne(w, r, gov, st)
                BY <3>4
            <4>2. st = status
                BY <3>1, <4>1 DEF SavesOne, Saves, Adding
            <4>3. supps'[w].gov = supps[w].gov
                BY <4>1 DEF SavesOne, Saves, Same
            <4> QED
                BY <3>2, <4>1, <4>2, <4>3 DEF SentBy, SavesOne
        <3>5. CASE DropsOne(w, r, gov)
            BY <2>2, <3>5 DEF DropsOne, Drops
        <3> QED
            BY <3>3, <3>4, <3>5 DEF Acts
    <2> QED
        BY <2>1, <2>2
<1>7. EndsTold'
    <2> SUFFICES ASSUME NEW i \in DOMAIN log', log'[i].status = "DELETED"
                 PROVE  supps'[log'[i].supp].status = "DELETED"
        BY DEF EndsTold
    <2>1. CASE i \in DOMAIN log
        <3> DEFINE t == log[i].supp
        <3>1. t \in Supps /\ Made(t) /\ supps[t].status = "DELETED" /\ log'[i].supp = t
            BY <1>2, <1>5, <2>1 DEF Kept, EndsTold
        <3> HIDE DEF t
        <3>2. t # w
            BY <1>1, <3>1 DEF Of
        <3>3. supps'[t] = supps[t] \/ supps'[t].status = "DELETED"
            BY <3>1, <3>2 DEF Acts, AddsOne, Adds, SavesOne, Saves, DropsOne, Drops
        <3> QED
            BY <3>1, <3>3
    <2>2. CASE i \notin DOMAIN log
        BY <1>1, <1>4, <1>5, <2>2 DEF Adding
    <2> QED
        BY <2>1, <2>2
<1>8. InOrder'
    <2> SUFFICES ASSUME NEW j \in DOMAIN log', NEW s \in Supps, s < log'[j].supp
                 PROVE  \E i \in DOMAIN log' : log'[i].supp = s /\ i < j
        BY DEF InOrder, EntriesOf
    <2>1. CASE j \in DOMAIN log
        <3>1. PICK i \in EntriesOf(s) : i < j
            BY <1>5, <2>1 DEF Kept, InOrder
        <3> QED
            BY <1>5, <3>1 DEF EntriesOf
    <2>2. CASE j \notin DOMAIN log
        <3>1. PICK status \in SentBy(gov) : Adding(w, status, gov)
            BY <1>1, <2>2
        <3>2. j = n /\ s < w
            BY <1>4, <2>2, <3>1
        <3>3. \A i \in EntriesOf(s) : i < n /\ i \in DOMAIN log' /\ log'[i].supp = s
            BY <1>4, <1>5, <3>1 DEF EntriesOf
        <3>4. EntriesOf(s) # {}
            <4>1. CASE Made(w)
                <5>1. PICK m \in EntriesOf(w) : TRUE
                    BY <4>1 DEF Kept, StatusTold, NewestEntry
                <5>2. m \in DOMAIN log /\ s < log[m].supp
                    BY <3>2, <5>1 DEF EntriesOf
                <5> QED
                    BY <5>2 DEF Kept, InOrder
            <4>2. CASE ~Made(w)
                <5>1. Made(s)
                    BY <3>2, <4>2, OfIsMade DEF Acts, AddsOne, Adds, SavesOne, Saves, DropsOne, Drops
                <5> QED
                    BY <5>1 DEF Kept, StatusTold, NewestEntry
            <4> QED
                BY <4>1, <4>2
        <3> QED
            BY <3>2, <3>3, <3>4
    <2> QED
        BY <2>1, <2>2
<1>9. StatusTold'
    <2> SUFFICES ASSUME NEW s \in Supps, supps'[s].status # "NONE"
                 PROVE  \E i \in DOMAIN log' :
                           /\ NewestEntry(s, i)'
                           /\ supps'[s].status \in {"REMOVED", "DELETED"} \/ supps'[s].status = log'[i].status
        BY DEF StatusTold, Made
    <2>1. CASE s = w /\ log' # log
        <3>1. PICK status \in SentBy(gov) : Adding(w, status, gov)
            BY <1>1, <2>1
        <3>2. n \in DOMAIN log' /\ log'[n].supp = s /\ log'[n].status = status /\ supps'[s].status = status
            BY <1>4, <2>1, <3>1 DEF Adding
        <3>3. \A m \in DOMAIN log' : m <= n
            BY <1>4, <3>1
        <3>4. NewestEntry(s, n)'
            BY <3>2, <3>3 DEF NewestEntry, EntriesOf
        <3> QED
            BY <3>2, <3>4
    <2>2. CASE s # w \/ log' = log
        <3>1. Made(s)
            <4>1. CASE s = w
                BY <1>10, <2>2, <4>1, OfIsMade DEF DropsOne, Drops
            <4>2. CASE s # w
                BY <1>1, <4>2 DEF Made
            <4> QED
                BY <4>1, <4>2
        <3>2. PICK i \in DOMAIN log :
                 /\ NewestEntry(s, i)
                 /\ supps[s].status \in {"REMOVED", "DELETED"} \/ supps[s].status = log[i].status
            BY <3>1 DEF Kept, StatusTold
        <3>3. NewestEntry(s, i)'
            BY <1>5, <2>2, <3>2 DEF NewestEntry, EntriesOf
        <3>4. supps'[s].status = supps[s].status \/ supps'[s].status \in {"REMOVED", "DELETED"}
            <4>1. CASE log' = log
                BY <1>10, <4>1 DEF DropsOne, Drops
            <4>2. CASE s # w
                BY <4>2 DEF Acts, AddsOne, Adds, SavesOne, Saves, DropsOne, Drops
            <4> QED
                BY <2>2, <4>1, <4>2
        <3> QED
            BY <1>5, <3>2, <3>3, <3>4
    <2> QED
        BY <2>1, <2>2
<1> QED
    BY <1>6, <1>7, <1>8, <1>9 DEF Kept

\* What is there after a step, by what was there before.
Fresh(i, w, gov) ==
    /\ i \in Nat /\ log'[i].supp = w /\ log'[i].gov = gov /\ log'[i].status = supps'[w].status
    /\ \E status \in SentBy(gov) : AddsOne(w, supps'[w].report, gov, status) \/ SavesOne(w, supps'[w].report, gov, status)
    /\ \A m \in DOMAIN log : m < i
    /\ \A m \in DOMAIN log' : m \in Nat /\ m <= i
Grows(w, r, gov) ==
    /\ \A i \in DOMAIN log : i \in DOMAIN log' /\ log'[i] = log[i]
    /\ \A i \in DOMAIN log' : i \in DOMAIN log \/ Fresh(i, w, gov)
    /\ \A q \in Reports, g \in BOOLEAN, i \in DOMAIN log :
          i \in Seen(q, g)' <=> i \in Seen(q, g) /\ log[i].supp \in Of(q)'
    /\ \A t \in Of(r) :
          \/ t \in Of(r)'
          \/ t = w /\ DropsOne(w, r, gov)
          \/ supps[t].gov /\ supps[t].status = "DRAFT" /\ ~gov /\ \E status \in SentBy(gov) : SavesOne(w, r, gov, status)

LEMMA Growing ==
    ASSUME Shape, NEW r \in Reports, NEW gov \in BOOLEAN, NEW w \in Supps, Acts(w, r, gov)
    PROVE  Grows(w, r, gov)
<1>1. Effect(w, r, gov)
    BY ActsOn
<1>2. log \in Seq(Entries) /\ \A j \in DOMAIN log : log[j].supp \in Supps /\ Made(log[j].supp)
    BY LoggedAreMade
<1>3. supps'[w].report = r
    BY <1>1 DEF Effect
<1>4. ASSUME log' # log
      PROVE  \E status \in SentBy(gov) : AddsOne(w, r, gov, status) \/ SavesOne(w, r, gov, status)
    BY <1>4 DEF Acts, DropsOne, Drops
<1>5. ASSUME NEW status \in SentBy(gov), Adding(w, status, gov)
      PROVE  /\ \A i \in DOMAIN log : i \in DOMAIN log' /\ log'[i] = log[i]
             /\ \A i \in DOMAIN log' : i \in DOMAIN log \/ Fresh(i, w, gov)
    <2> DEFINE e == Entry(w, status, gov)
    <2>1. e \in Entries /\ e.supp = w /\ e.status = status /\ e.gov = gov
        BY EntryIs, SentByIs
    <2>2. log' = Append(log, e) /\ supps'[w].status = status
        BY <1>5 DEF Adding
    <2> HIDE DEF e
    <2>3. PICK n : n = Len(log) + 1
        OBVIOUS
    <2>4. /\ n \in Nat /\ log'[n] = e /\ DOMAIN log' = DOMAIN log \union {n}
          /\ \A i \in DOMAIN log : i \in Nat /\ i < n /\ log'[i] = log[i]
        BY <1>2, <2>1, <2>2, <2>3, Appended
    <2>5. log' # log
        <3>1. n \notin DOMAIN log
            BY <2>4
        <3> QED
            BY <2>4, <3>1
    <2>6. \A m \in DOMAIN log' : m \in Nat /\ m <= n
        BY <2>4
    <2>7. Fresh(n, w, gov)
        BY <1>3, <1>4, <2>1, <2>2, <2>4, <2>5, <2>6 DEF Fresh
    <2> QED
        BY <2>4, <2>7
<1>6. /\ \A i \in DOMAIN log : i \in DOMAIN log' /\ log'[i] = log[i]
      /\ \A i \in DOMAIN log' : i \in DOMAIN log \/ Fresh(i, w, gov)
    <2>1. log' = log \/ \E status \in SentBy(gov) : Adding(w, status, gov)
        BY <1>1 DEF Effect
    <2>2. CASE log' = log
        BY <2>2
    <2>3. CASE \E status \in SentBy(gov) : Adding(w, status, gov)
        BY <1>5, <2>3
    <2> QED
        BY <2>1, <2>2, <2>3
<1>7. ASSUME NEW q \in Reports, NEW g \in BOOLEAN, NEW i \in DOMAIN log
      PROVE  i \in Seen(q, g)' <=> i \in Seen(q, g) /\ log[i].supp \in Of(q)'
    <2>1. log[i].supp \in Of(q)' => log[i].supp \in Of(q)
        BY <1>1, <1>2 DEF Effect
    <2> QED
        BY <1>6, <2>1 DEF Seen
<1>8. ASSUME NEW t \in Of(r), t \notin Of(r)'
      PROVE  \/ t = w /\ DropsOne(w, r, gov)
             \/ supps[t].gov /\ supps[t].status = "DRAFT" /\ ~gov /\ \E status \in SentBy(gov) : SavesOne(w, r, gov, status)
    <2>1. t \in Supps /\ Made(t) /\ supps[t].report = r
        BY OfIsMade
    <2>2. supps'[t].report = r /\ supps'[t].status # "NONE"
        BY <1>1, <2>1 DEF Effect, Same
    <2>3. supps'[t].status \in {"REMOVED", "DELETED"}
        BY <1>8, <2>1, <2>2 DEF Of
    <2>4. supps'[t] # supps[t]
        BY <2>3 DEF Of
    <2>5. CASE \E status \in SentBy(gov) : AddsOne(w, r, gov, status)
        BY <2>1, <2>4, <2>5 DEF AddsOne, Adds
    <2>6. CASE \E status \in SentBy(gov) : SavesOne(w, r, gov, status)
        <3>1. PICK status \in SentBy(gov) : SavesOne(w, r, gov, status)
            BY <2>6
        <3>2. status # "DELETED" /\ status # "REMOVED"
            BY <3>1, SentByIs DEF SavesOne
        <3>3. t # w
            BY <2>3, <3>1, <3>2 DEF SavesOne, Saves
        <3>4. status = "SUBMITTED" /\ supps[t].gov /\ supps[t].status = "DRAFT"
            BY <2>1, <2>4, <3>1, <3>3 DEF SavesOne, Saves
        <3>5. ~gov
            BY <3>4 DEF SentBy
        <3> QED
            BY <3>1, <3>4, <3>5
    <2>7. CASE DropsOne(w, r, gov)
        BY <2>1, <2>4, <2>7 DEF DropsOne, Drops
    <2> QED
        BY <2>5, <2>6, <2>7 DEF Acts
<1> QED
    BY <1>6, <1>7, <1>8 DEF Grows

\* The place of the latest.
LEMMA LatestPlace ==
    ASSUME Shape, NEW r, NEW gov \in BOOLEAN
    PROVE  IF LatestFor(r, gov) = 0 THEN Left(r, gov) = {}
           ELSE \E n \in Left(r, gov) : log[n].supp = LatestFor(r, gov) /\ \A m \in Left(r, gov) : m <= n
<1> DEFINE seen == Seen(r, gov)
           left == IF gov THEN seen \ PassedOver(seen) ELSE seen
<1>1. left = Left(r, gov)
    BY DEF Left
<1>2. LatestFor(r, gov) = IF left = {} THEN 0 ELSE log[Newest(left)].supp
    BY DEF LatestFor
<1> HIDE DEF left
<1>3. Left(r, gov) \in SUBSET DOMAIN log /\ DOMAIN log = 1 .. Len(log) /\ Len(log) \in Nat
    BY PlacesAre DEF Left, Seen
<1>4. ASSUME NEW S \in SUBSET DOMAIN log, S # {}
      PROVE  Newest(S) \in S /\ \A m \in S : m <= Newest(S)
    BY <1>3, <1>4, NewestIn
<1>5. \A m \in Left(r, gov) : log[m].supp # 0
    <2>1. \A m \in DOMAIN log : log[m].supp \in Supps
        BY LoggedAreMade
    <2> QED
        BY <1>3, <2>1, PlacesAre
<1>6. CASE Left(r, gov) = {}
    BY <1>1, <1>2, <1>6
<1>7. CASE Left(r, gov) # {}
    <2>1. Newest(Left(r, gov)) \in Left(r, gov) /\ \A m \in Left(r, gov) : m <= Newest(Left(r, gov))
        BY <1>3, <1>4, <1>7
    <2>2. LatestFor(r, gov) = log[Newest(Left(r, gov))].supp
        BY <1>1, <1>2, <1>7
    <2> QED
        BY <1>5, <2>1, <2>2
<1> QED
    BY <1>6, <1>7

LEMMA OverIs ==
    ASSUME NEW r
    PROVE  \A i : i \in PassedOver(Seen(r, TRUE)) <=> \E j : Hidden(r, i, j) \/ Hidden(r, j, i)
BY DEF PassedOver, Hidden

\* A supplemental report that is there has the status of its newest entry.
LEMMA OfTold ==
    ASSUME Shape, Kept, NEW r, NEW s \in Of(r)
    PROVE  \E i \in DOMAIN log :
              /\ log[i].supp = s /\ \A m \in EntriesOf(s) : m <= i
              /\ log[i].status = supps[s].status
BY OfIsMade DEF Kept, StatusTold, NewestEntry, EntriesOf, Of

-----------------------------------------------------------------------------
\* What is passed over stays passed over

\* The reassessment x is first told of as returned.
ReturnedFirst(x, j) ==
    log[j].supp = x /\ log[j].status = "RETURNED" /\ \A m \in EntriesOf(x) : j <= m

\* What such a one is linked to stays, and is written by the government only.
Answered(v, r, j) ==
    v \in Of(r) /\ ~supps[v].gov /\ \A m \in EntriesOf(v) : j < m => log[m].gov
Tied(r) ==
    \A j \in Seen(r, TRUE), x \in Supps :
        ReturnedFirst(x, j) /\ supps[x].link # 0 => Answered(supps[x].link, r, j)
\* What was returned right after it was submitted is a reassessment linked to it,
\* which is not written again.
Paired(r) ==
    \A i, j : Hidden(r, i, j) =>
        /\ supps[log[j].supp].link = log[i].supp
        /\ \A m \in EntriesOf(log[j].supp) : m = j
\* What is between a submission and a return does not go before the return does.
Lasting(r, k, j) ==
    \/ log[k].supp = log[j].supp
    \/ k \in PassedOver(Seen(r, TRUE))
    \/ log[k].supp = supps[log[j].supp].link /\ \E m \in DOMAIN log : ReturnedFirst(log[j].supp, m)
Gaps(r) ==
    \A i, j \in Seen(r, TRUE) :
        i < j /\ log[i].status = "SUBMITTED" /\ log[j].status = "RETURNED" =>
            Hidden(r, i, j) \/ \E k \in Seen(r, TRUE) : i < k /\ k < j /\ Lasting(r, k, j)

LEMMA ReturnedIs ==
    ASSUME Shape, Kept, NEW r, NEW j \in Seen(r, TRUE), log[j].status = "RETURNED"
    PROVE  /\ j \in DOMAIN log /\ j \in Nat /\ j \in Seen(r, FALSE)
           /\ log[j].supp \in Of(r) /\ log[j].supp \in Supps /\ supps[log[j].supp].gov
<1>1. j \in DOMAIN log /\ log[j].supp \in Of(r)
    BY DEF Seen
<1> QED
    BY <1>1, OfIsMade, PlacesAre DEF Seen, Kept, EntryKinds

\* What is linked to by a returned one is not the latest for the supplier.
LEMMA AnsweredIsNotLatest ==
    ASSUME Shape, Kept, NEW r, NEW j \in Seen(r, TRUE), log[j].status = "RETURNED",
           NEW v, Answered(v, r, j)
    PROVE  v # LatestFor(r, FALSE)
<1> SUFFICES ASSUME v = LatestFor(r, FALSE) PROVE FALSE
    OBVIOUS
<1>1. v \in Of(r) /\ v \in Supps /\ v # 0
    BY OfIsMade, PlacesAre DEF Answered
<1>2. PICK n \in Seen(r, FALSE) : log[n].supp = v /\ \A m \in Seen(r, FALSE) : m <= n
    BY <1>1, LatestPlace DEF Left
<1>3. n \in DOMAIN log /\ n \in EntriesOf(v) /\ n \in Nat
    BY <1>2, PlacesAre DEF Seen, EntriesOf
<1>4. j <= n /\ j # n /\ j \in Nat
    <2>1. j \in Nat /\ j \in Seen(r, FALSE) /\ supps[log[j].supp].gov
        BY ReturnedIs
    <2>2. ~supps[v].gov
        BY DEF Answered
    <2> QED
        BY <1>2, <2>1, <2>2
<1>5. log[n].gov
    <2>1. j < n
        BY <1>3, <1>4
    <2> QED
        BY <1>3, <2>1, Zenon DEF Answered
<1>6. log[n].status = "DRAFT"
    <2>1. ~supps[log[n].supp].gov
        BY <1>2 DEF Answered
    <2> QED
        BY <1>3, <1>5, <2>1 DEF Kept, EntryKinds
<1>7. log[n].status = "DRAFT" => log[n].gov = FALSE
    BY <1>2 DEF Seen
<1> QED
    BY <1>5, <1>6, <1>7

\* So it stays there.
LEMMA AnsweredStays ==
    ASSUME Shape, Kept, NEW r \in Reports, NEW gov \in BOOLEAN, NEW w \in Supps, Acts(w, r, gov),
           NEW j \in Seen(r, TRUE), log[j].status = "RETURNED", NEW v, Answered(v, r, j)
    PROVE  Answered(v, r, j)'
<1>1. v \in Of(r) /\ v \in Supps /\ Made(v) /\ ~supps[v].gov
    BY OfIsMade DEF Answered
<1>2. v # LatestFor(r, FALSE)
    BY AnsweredIsNotLatest
<1>3. v \in Of(r)'
    <2>1. CASE v = w /\ DropsOne(w, r, gov)
        BY <1>1, <1>2, <2>1 DEF DropsOne, Drops
    <2> QED
        BY <1>1, <2>1, Growing DEF Grows
<1>4. ~supps'[v].gov
    BY <1>1, ActsOn DEF Effect, Same
<1>5. ASSUME NEW m \in EntriesOf(v)', j < m
      PROVE  log'[m].gov
    <2>1. m \in DOMAIN log' /\ log'[m].supp = v
        BY <1>5 DEF EntriesOf
    <2>2. CASE m \in DOMAIN log
        BY <1>5, <2>1, <2>2, Growing DEF Grows, EntriesOf, Answered
    <2>3. CASE m \notin DOMAIN log
        <3>1. Fresh(m, w, gov) /\ supps'[w].report = r
            BY <2>1, <2>3, Growing, ActsOn DEF Grows, Effect
        <3>2. PICK status \in SentBy(gov) : AddsOne(w, r, gov, status) \/ SavesOne(w, r, gov, status)
            BY <3>1 DEF Fresh
        <3>3. v = w /\ log'[m].gov = gov
            BY <2>1, <3>1 DEF Fresh
        <3>4. w = LatestFor(r, gov)
            BY <1>1, <3>2, <3>3 DEF AddsOne, Adds, SavesOne, Saves
        <3>5. gov
            BY <1>2, <3>3, <3>4
        <3> QED
            BY <3>3, <3>5
    <2> QED
        BY <2>2, <2>3
<1> QED
    BY <1>3, <1>4, <1>5 DEF Answered

LEMMA TiedKept ==
    ASSUME Shape, Kept, NEW r \in Reports, NEW gov \in BOOLEAN, NEW w \in Supps, Acts(w, r, gov), Tied(r)
    PROVE  Tied(r)'
<1>1. Effect(w, r, gov) /\ Grows(w, r, gov)
    BY ActsOn, Growing
<1> SUFFICES ASSUME NEW j \in Seen(r, TRUE)', NEW x \in Supps, ReturnedFirst(x, j)', supps'[x].link # 0
             PROVE  Answered(supps[x].link, r, j)'
    BY DEF Tied
<1>2. j \in DOMAIN log' /\ log'[j].supp = x /\ log'[j].status = "RETURNED" /\ x \in Of(r)'
      /\ \A m \in DOMAIN log' : log'[m].supp = x => j <= m
    BY DEF Seen, ReturnedFirst, EntriesOf
<1>3. CASE j \in DOMAIN log
    <2>1. j \in Seen(r, TRUE) /\ log[j].supp = x /\ log[j].status = "RETURNED" /\ ReturnedFirst(x, j)
        BY <1>1, <1>2, <1>3 DEF Grows, ReturnedFirst, EntriesOf
    <2>2. Made(x) /\ supps'[x].link = supps[x].link
        BY <1>1, <2>1, LoggedAreMade, <1>3 DEF Effect, Same
    <2> DEFINE v == supps[x].link
    <2>3. Answered(v, r, j)
        BY <2>1, <2>2 DEF Tied
    <2>4. PICK v0 : v0 = v
        OBVIOUS
    <2>5. Answered(v0, r, j)'
        BY <2>1, <2>3, <2>4, AnsweredStays
    <2> QED
        BY <2>2, <2>4, <2>5
<1>4. CASE j \notin DOMAIN log
    <2>1. Fresh(j, w, gov) /\ supps'[w].report = r /\ x = w
        BY <1>1, <1>2, <1>4 DEF Grows, Effect, Fresh
    <2>2. PICK status \in SentBy(gov) : AddsOne(w, r, gov, status) \/ SavesOne(w, r, gov, status)
        BY <2>1 DEF Fresh
    <2>3. supps'[w].status = status
        BY <2>2 DEF AddsOne, Adds, SavesOne, Saves
    <2>4. status = "RETURNED" /\ gov
        BY <1>2, <2>1, <2>3 DEF Fresh, SentBy
    <2>5. AddsOne(w, r, gov, status)
        <3>1. CASE SavesOne(w, r, gov, status)
            <4>1. Made(w)
                BY <3>1, OfIsMade DEF SavesOne, Saves
            <4>2. PICK m \in EntriesOf(w) : TRUE
                BY <4>1 DEF Kept, StatusTold, NewestEntry
            <4>3. m \in DOMAIN log' /\ log'[m].supp = w /\ m < j
                BY <1>1, <2>1, <4>2 DEF Grows, EntriesOf, Fresh
            <4> QED
                BY <1>2, <2>1, <4>3, PlacesAre, <4>2 DEF Fresh, EntriesOf
        <3> QED
            BY <2>2, <3>1
    <2> DEFINE v == LatestFor(r, TRUE)
    <2>6. supps'[w].link = v /\ v # 0 /\ supps[v].gov # TRUE /\ ~Made(w)
        BY <2>1, <2>4, <2>5 DEF AddsOne, Adds
    <2>7. v \in Of(r) /\ v \in Supps /\ Made(v)
        BY <2>6, LatestIsOf, OfIsMade DEF Shape
    <2>8. PICK v0 : v0 = v
        OBVIOUS
    <2> HIDE DEF v
    <2>9. supps'[v0] = supps[v0] /\ supps[v0].gov \in BOOLEAN
        BY <2>5, <2>6, <2>7, <2>8 DEF AddsOne, Adds, Shape, SuppsShape, IsSupp
    <2>10. v0 \in Of(r)' /\ ~supps'[v0].gov
        BY <2>6, <2>7, <2>8, <2>9 DEF Of
    <2>11. \A m \in EntriesOf(v0)' : ~(j < m)
        BY <2>1 DEF EntriesOf, Fresh
    <2>12. Answered(v0, r, j)'
        BY <2>10, <2>11 DEF Answered
    <2> QED
        BY <2>1, <2>6, <2>8, <2>12
<1> QED
    BY <1>3, <1>4

\* A place that is in the history after a step is an old one or the new one.
LEMMA SeenAfter ==
    ASSUME Shape, NEW r \in Reports, NEW gov \in BOOLEAN, NEW w \in Supps, Acts(w, r, gov),
           NEW g \in BOOLEAN, NEW i \in Seen(r, g)'
    PROVE  \/ i \in DOMAIN log /\ i \in Seen(r, g) /\ log'[i] = log[i] /\ log[i].supp \in Of(r)'
           \/ i \notin DOMAIN log /\ Fresh(i, w, gov)
BY Growing DEF Grows, Seen

LEMMA SeenStill ==
    ASSUME Shape, NEW r \in Reports, NEW gov \in BOOLEAN, NEW w \in Supps, Acts(w, r, gov),
           NEW g \in BOOLEAN, NEW i \in Seen(r, g), log[i].supp \in Of(r)'
    PROVE  i \in Seen(r, g)' /\ log'[i] = log[i]
<1>1. i \in DOMAIN log
    BY DEF Seen
<1> QED
    BY <1>1, Growing DEF Grows

\* The last of a pair is alone and has the status it was returned with.
LEMMA PairIs ==
    ASSUME Shape, Kept, NEW r, NEW i, NEW j, Hidden(r, i, j), Paired(r), Tied(r)
    PROVE  /\ i \in DOMAIN log /\ j \in DOMAIN log /\ i \in Nat /\ j \in Nat
           /\ log[i].supp \in Supps /\ log[j].supp \in Supps
           /\ ReturnedFirst(log[j].supp, j) /\ Answered(log[i].supp, r, j)
           /\ supps[log[j].supp].status = "RETURNED" /\ supps[log[j].supp].gov
           /\ log[j].supp # LatestFor(r, TRUE)
<1> DEFINE x == log[j].supp
<1>1. /\ i \in Seen(r, TRUE) /\ j \in Seen(r, TRUE) /\ i \in DOMAIN log /\ j \in DOMAIN log
      /\ log[j].status = "RETURNED" /\ supps[x].link = log[i].supp
      /\ \A m \in EntriesOf(x) : m = j
    BY DEF Hidden, Paired, Seen
<1>2. i \in Nat /\ j \in Nat
    BY <1>1, PlacesAre
<1>3. log[i].supp \in Supps /\ x \in Supps /\ log[i].supp # 0 /\ x # 0
    BY <1>1, LoggedAreMade, PlacesAre
<1>4. ReturnedFirst(x, j)
    BY <1>1, <1>2 DEF ReturnedFirst
<1>5. Answered(log[i].supp, r, j)
    BY <1>1, <1>3, <1>4 DEF Tied
<1>6. supps[x].status = "RETURNED" /\ supps[x].gov
    <2>1. x \in Of(r)
        BY <1>1 DEF Seen
    <2>2. PICK m \in DOMAIN log : log[m].supp = x /\ log[m].status = supps[x].status
        BY <2>1, OfTold
    <2>3. m = j
        BY <1>1, <2>2 DEF EntriesOf
    <2> QED
        BY <1>1, <2>2, <2>3, ReturnedIs
<1>7. x # LatestFor(r, TRUE)
    <2> SUFFICES ASSUME x = LatestFor(r, TRUE) PROVE FALSE
        OBVIOUS
    <2>1. PICK n \in Left(r, TRUE) : log[n].supp = x
        BY <1>3, LatestPlace
    <2>2. n = j
        BY <1>1, <2>1 DEF Left, Seen, EntriesOf
    <2>3. j \in PassedOver(Seen(r, TRUE))
        BY OverIs
    <2> QED
        BY <2>1, <2>2, <2>3 DEF Left
<1> QED
    BY <1>1, <1>2, <1>3, <1>4, <1>5, <1>6, <1>7

LEMMA PairStays ==
    ASSUME Shape, Kept, NEW r \in Reports, NEW gov \in BOOLEAN, NEW w \in Supps, Acts(w, r, gov),
           Paired(r), Tied(r), NEW i, NEW j, Hidden(r, i, j)
    PROVE  Hidden(r, i, j)'
<1>1. /\ i \in DOMAIN log /\ j \in DOMAIN log /\ i \in Nat /\ j \in Nat
      /\ log[i].supp \in Supps /\ log[j].supp \in Supps
      /\ ReturnedFirst(log[j].supp, j) /\ Answered(log[i].supp, r, j)
      /\ supps[log[j].supp].status = "RETURNED" /\ supps[log[j].supp].gov
      /\ log[j].supp # LatestFor(r, TRUE)
    BY PairIs
<1>2. /\ i \in Seen(r, TRUE) /\ j \in Seen(r, TRUE) /\ i < j
      /\ log[i].status = "SUBMITTED" /\ log[j].status = "RETURNED"
      /\ ~ \E k \in Seen(r, TRUE) : i < k /\ k < j
    BY DEF Hidden
<1>3. PICK v, x : v = log[i].supp /\ x = log[j].supp
    OBVIOUS
<1>4. v \in Of(r)'
    <2>1. Answered(v, r, j)'
        BY <1>1, <1>2, <1>3, AnsweredStays
    <2> QED
        BY <2>1 DEF Answered
<1>5. x \in Of(r)'
    <2>1. x \in Of(r)
        BY <1>2, <1>3 DEF Seen
    <2>2. ASSUME x = w, DropsOne(w, r, gov)
          PROVE  FALSE
        BY <1>1, <1>3, <2>2 DEF DropsOne, Drops
    <2> QED
        BY <1>1, <1>3, <2>1, <2>2, Growing DEF Grows
<1>6. i \in Seen(r, TRUE)' /\ j \in Seen(r, TRUE)' /\ log'[i] = log[i] /\ log'[j] = log[j]
    BY <1>2, <1>3, <1>4, <1>5, SeenStill
<1>7. ASSUME NEW k \in Seen(r, TRUE)', i < k, k < j
      PROVE  FALSE
    <2>1. CASE k \in Seen(r, TRUE)
        BY <1>2, <1>7, <2>1
    <2>2. CASE Fresh(k, w, gov)
        BY <1>1, <1>7, <2>2 DEF Fresh
    <2> QED
        BY <2>1, <2>2, SeenAfter
<1> QED
    BY <1>2, <1>6, <1>7 DEF Hidden

LEMMA OverStays ==
    ASSUME Shape, Kept, NEW r \in Reports, NEW gov \in BOOLEAN, NEW w \in Supps, Acts(w, r, gov),
           Paired(r), Tied(r), NEW i \in PassedOver(Seen(r, TRUE))
    PROVE  i \in PassedOver(Seen(r, TRUE))' /\ i \in Seen(r, TRUE)'
<1>1. PICK j : Hidden(r, i, j) \/ Hidden(r, j, i)
    BY OverIs
<1>2. Hidden(r, i, j)' \/ Hidden(r, j, i)'
    BY <1>1, PairStays
<1> QED
    BY <1>2 DEF PassedOver, Hidden

LEMMA LastingStays ==
    ASSUME Shape, Kept, NEW r \in Reports, NEW gov \in BOOLEAN, NEW w \in Supps, Acts(w, r, gov),
           Paired(r), Tied(r), NEW j \in Seen(r, TRUE), log[j].supp \in Of(r)',
           NEW k \in Seen(r, TRUE), Lasting(r, k, j)
    PROVE  k \in Seen(r, TRUE)' /\ Lasting(r, k, j)'
<1>1. Grows(w, r, gov) /\ Effect(w, r, gov)
    BY Growing, ActsOn
<1>2. k \in DOMAIN log /\ j \in DOMAIN log
    BY DEF Seen
<1>3. log'[k] = log[k] /\ log'[j] = log[j]
    BY <1>1, <1>2 DEF Grows
<1>4. CASE log[k].supp = log[j].supp
    BY <1>3, <1>4, SeenStill DEF Lasting
<1>5. CASE k \in PassedOver(Seen(r, TRUE))
    BY <1>5, OverStays DEF Lasting
<1>6. CASE log[k].supp = supps[log[j].supp].link /\ \E m \in DOMAIN log : ReturnedFirst(log[j].supp, m)
    <2>1. PICK x : x = log[j].supp
        OBVIOUS
    <2>2. x \in Supps /\ Made(x) /\ supps'[x].link = supps[x].link
        BY <1>1, <1>2, <2>1, LoggedAreMade DEF Effect, Same
    <2>3. PICK m \in DOMAIN log : ReturnedFirst(x, m)
        BY <1>6, <2>1
    <2>4. log'[m] = log[m] /\ m \in DOMAIN log' /\ m \in Nat
        BY <1>1, <2>3, PlacesAre DEF Grows
    <2>5. ReturnedFirst(x, m)'
        <3>1. ASSUME NEW p \in EntriesOf(x)'
              PROVE  m <= p
            <4>1. CASE p \in DOMAIN log
                BY <1>1, <2>3, <3>1, <4>1 DEF Grows, EntriesOf, ReturnedFirst
            <4>2. CASE p \notin DOMAIN log
                BY <1>1, <2>3, <2>4, <3>1, <4>2 DEF Grows, EntriesOf, Fresh
            <4> QED
                BY <4>1, <4>2
        <3> QED
            BY <2>3, <2>4, <3>1 DEF ReturnedFirst
    <2>6. m \in Seen(r, TRUE)'
        <3>1. log[m].supp \in Of(r) /\ log[m].supp \in Of(r)' /\ log[m].status = "RETURNED"
            BY <2>1, <2>3 DEF ReturnedFirst, Seen
        <3>2. m \in Seen(r, TRUE)
            BY <2>3, <3>1 DEF Seen
        <3> QED
            BY <3>1, <3>2, SeenStill
    <2>7. supps'[x].link # 0
        BY <1>2, <1>6, <2>1, <2>2, LoggedAreMade, PlacesAre
    <2>8. Tied(r)'
        BY TiedKept
    <2>9. supps'[x].link \in Of(r)'
        BY <2>2, <2>5, <2>6, <2>7, <2>8 DEF Tied, Answered
    <2>10. k \in Seen(r, TRUE)'
        BY <1>6, <2>1, <2>2, <2>9, SeenStill
    <2> QED
        BY <1>3, <1>6, <2>1, <2>2, <2>4, <2>5, <2>10 DEF Lasting
<1> QED
    BY <1>4, <1>5, <1>6 DEF Lasting

\* What is before a return that is new.
LEMMA ReturnFollows ==
    ASSUME Shape, Kept, NEW r \in Reports, NEW gov \in BOOLEAN, NEW w \in Supps, Acts(w, r, gov),
           Paired(r), Tied(r), NEW j \in Seen(r, TRUE)', j \notin DOMAIN log, log'[j].status = "RETURNED",
           NEW i \in Seen(r, TRUE), log[i].status = "SUBMITTED"
    PROVE  \/ /\ Hidden(r, i, j)' /\ log'[j].supp = w /\ supps'[w].link = log'[i].supp
              /\ \A m \in EntriesOf(w)' : m = j
           \/ \E k \in Seen(r, TRUE)' : i < k /\ k < j /\ Lasting(r, k, j)'
<1>1. Grows(w, r, gov) /\ Effect(w, r, gov)
    BY Growing, ActsOn
<1>2. Fresh(j, w, gov) /\ supps'[w].report = r
    BY <1>1, SeenAfter DEF Effect
<1>3. PICK status \in SentBy(gov) : AddsOne(w, r, gov, status) \/ SavesOne(w, r, gov, status)
    BY <1>2 DEF Fresh
<1>4. supps'[w].status = status
    BY <1>3 DEF AddsOne, Adds, SavesOne, Saves
<1>5. status = "RETURNED" /\ gov = TRUE /\ j \in Nat /\ log'[j].supp = w
    BY <1>2, <1>4 DEF Fresh, SentBy
<1>6. i \in DOMAIN log /\ i \in Nat /\ \A k \in Seen(r, TRUE) : k \in DOMAIN log /\ k \in Nat /\ k < j
    BY <1>2, PlacesAre DEF Seen, Fresh
<1>7. \A k \in Seen(r, TRUE) : k \in Seen(r, TRUE)' /\ log'[k] = log[k]
    <2>1. \A t \in Of(r) : t \in Of(r)'
        <3>1. ~DropsOne(w, r, gov)
            <4>1. DropsOne(w, r, gov) => supps'[w].status = "REMOVED"
                BY DEF DropsOne, Drops
            <4> QED
                BY <1>4, <1>5, <4>1
        <3> QED
            BY <1>1, <1>5, <3>1 DEF Grows
    <2>2. \A k \in Seen(r, TRUE) : log[k].supp \in Of(r)'
        BY <2>1 DEF Seen
    <2> QED
        BY <2>2, SeenStill
<1>8. CASE i \in PassedOver(Seen(r, TRUE))
    <2>1. PICK k : Hidden(r, i, k)
        <3>1. PICK k : Hidden(r, i, k) \/ Hidden(r, k, i)
            BY <1>8, OverIs
        <3> QED
            BY <3>1 DEF Hidden
    <2>2. k \in PassedOver(Seen(r, TRUE)) /\ k \in Seen(r, TRUE) /\ i < k
        <3>1. k \in PassedOver(Seen(r, TRUE))
            BY <2>1, OverIs
        <3> QED
            BY <2>1, <3>1 DEF Hidden
    <2>3. k \in PassedOver(Seen(r, TRUE))'
        BY <2>2, OverStays
    <2> QED
        BY <1>6, <1>7, <2>2, <2>3 DEF Lasting
<1>9. CASE i \notin PassedOver(Seen(r, TRUE))
    <2>1. i \in Left(r, TRUE)
        BY <1>9 DEF Left
    <2> DEFINE l == LatestFor(r, TRUE)
    <2>2. l # 0
        BY <2>1, LatestPlace
    <2>3. PICK n \in Left(r, TRUE) : log[n].supp = l /\ \A m \in Left(r, TRUE) : m <= n
        BY <2>2, LatestPlace
    <2>4. n \in Seen(r, TRUE) /\ i <= n /\ n \in Nat
        BY <1>6, <2>1, <2>3 DEF Left
    <2>7. n < j /\ n \in Seen(r, TRUE)' /\ log'[n] = log[n]
        BY <1>6, <1>7, <2>4
    <2>5. CASE SavesOne(w, r, gov, status)
        <3>1. w = l /\ supps[w].gov
            BY <1>5, <2>5 DEF SavesOne, Saves
        <3>2. n # i
            BY <1>6, <2>3, <3>1 DEF Kept, EntryKinds
        <3>3. i < n
            <4>1. i \in Nat
                BY <1>6
            <4> QED
                BY <2>4, <3>2, <4>1
        <3>4. log'[n].supp = log'[j].supp
            BY <1>5, <2>3, <2>7, <3>1
        <3>5. Lasting(r, n, j)'
            BY <3>4 DEF Lasting
        <3> QED
            BY <2>7, <3>3, <3>5
    <2>6. CASE AddsOne(w, r, gov, status)
        <3>1. supps'[w].link = l /\ ~Made(w)
            BY <1>5, <2>6 DEF AddsOne, Adds
        <3>2. \A m \in EntriesOf(w)' : m = j
            <4> SUFFICES ASSUME NEW m \in DOMAIN log', log'[m].supp = w PROVE m = j
                BY DEF EntriesOf
            <4>1. m \notin DOMAIN log
                BY <1>1, <3>1, LoggedAreMade DEF Grows
            <4>2. Fresh(m, w, gov) /\ j \in DOMAIN log'
                BY <1>1, <4>1 DEF Grows, Seen
            <4>3. m <= j /\ j <= m /\ m \in Nat
                BY <1>2, <4>2 DEF Fresh
            <4> QED
                BY <1>5, <4>3
        <3>3. CASE n = i
            <4>1. CASE \E k \in Seen(r, TRUE) : i < k
                <5>1. PICK k \in Seen(r, TRUE) : i < k
                    BY <4>1
                <5>2. k \in PassedOver(Seen(r, TRUE))
                    <6>1. k \notin Left(r, TRUE)
                        <7>1. k \in Nat /\ i \in Nat
                            BY <1>6
                        <7>2. i < k
                            BY <5>1
                        <7>3. ASSUME k \in Left(r, TRUE) PROVE FALSE
                            <8>1. k <= i
                                BY <2>3, <3>3, <7>3
                            <8> QED
                                BY <7>1, <7>2, <8>1
                        <7> QED
                            BY <7>3
                    <6> QED
                        BY <6>1 DEF Left
                <5>3. k \in PassedOver(Seen(r, TRUE))'
                    BY <5>2, OverStays
                <5> QED
                    BY <1>6, <1>7, <5>1, <5>3 DEF Lasting
            <4>2. CASE ~ \E k \in Seen(r, TRUE) : i < k
                <5>1. ~ \E k \in Seen(r, TRUE)' : i < k /\ k < j
                    <6>1. \A k \in Seen(r, TRUE)' : k \in Seen(r, TRUE) \/ Fresh(k, w, gov)
                        BY SeenAfter
                    <6>2. \A k : Fresh(k, w, gov) => ~(k < j)
                        BY <1>5 DEF Fresh, Seen
                    <6> QED
                        BY <4>2, <6>1, <6>2
                <5>2. Hidden(r, i, j)'
                    BY <1>6, <1>7, <5>1 DEF Hidden
                <5>3. log'[i].supp = l
                    BY <1>7, <2>3, <3>3
                <5> QED
                    BY <1>5, <3>1, <3>2, <5>2, <5>3
            <4> QED
                BY <4>1, <4>2
        <3>4. CASE n # i
            <4>1. i < n
                <5>1. i \in Nat
                    BY <1>6
                <5> QED
                    BY <2>4, <3>4, <5>1
            <4>2. log'[n].supp = supps'[w].link
                BY <2>3, <2>7, <3>1
            <4>3. ReturnedFirst(w, j)' /\ j \in DOMAIN log'
                BY <1>5, <3>2 DEF ReturnedFirst, Seen
            <4>4. Lasting(r, n, j)'
                BY <1>5, <4>2, <4>3 DEF Lasting
            <4> QED
                BY <2>7, <4>1, <4>4
        <3> QED
            BY <3>3, <3>4
    <2> QED
        BY <1>3, <2>5, <2>6
<1> QED
    BY <1>8, <1>9

LEMMA PairedKept ==
    ASSUME Shape, Kept, NEW r \in Reports, NEW gov \in BOOLEAN, NEW w \in Supps, Acts(w, r, gov),
           Paired(r), Tied(r), Gaps(r)
    PROVE  Paired(r)'
<1>1. Grows(w, r, gov) /\ Effect(w, r, gov)
    BY Growing, ActsOn
<1> SUFFICES ASSUME NEW i, NEW j, Hidden(r, i, j)'
             PROVE  /\ supps'[log'[j].supp].link = log'[i].supp
                    /\ \A m \in EntriesOf(log[j].supp)' : m = j
    BY DEF Paired
<1>2. /\ i \in Seen(r, TRUE)' /\ j \in Seen(r, TRUE)' /\ i < j
      /\ log'[i].status = "SUBMITTED" /\ log'[j].status = "RETURNED"
      /\ \A k \in Seen(r, TRUE)' : ~(i < k /\ k < j)
    BY DEF Hidden
<1>3. i \in DOMAIN log /\ i \in Seen(r, TRUE) /\ log'[i] = log[i]
    <2>1. CASE i \notin DOMAIN log
        <3>1. Fresh(i, w, gov) /\ j \in DOMAIN log'
            BY <1>2, <2>1, SeenAfter DEF Seen
        <3>2. j <= i /\ j \in Nat /\ i \in Nat
            BY <3>1 DEF Fresh
        <3> QED
            BY <1>2, <3>2
    <2> QED
        BY <1>2, <2>1, SeenAfter
<1>4. CASE j \in DOMAIN log
    <2>1. j \in Seen(r, TRUE) /\ log'[j] = log[j] /\ log[j].supp \in Of(r)'
        BY <1>2, <1>4, SeenAfter
    <2>2. Hidden(r, i, j)
        <3>1. ASSUME NEW k \in Seen(r, TRUE), i < k, k < j, Lasting(r, k, j)
              PROVE  FALSE
            BY <1>2, <2>1, <3>1, LastingStays
        <3> QED
            BY <1>2, <1>3, <2>1, <3>1 DEF Gaps
    <2>3. PICK x : x = log[j].supp
        OBVIOUS
    <2>4. /\ x \in Supps /\ Made(x) /\ supps[x].link = log[i].supp /\ \A m \in EntriesOf(x) : m = j
          /\ x # LatestFor(r, TRUE) /\ supps[x].gov
        BY <1>4, <2>2, <2>3, PairIs, LoggedAreMade DEF Paired
    <2>5. supps'[x].link = supps[x].link
        BY <1>1, <2>4 DEF Effect, Same
    <2>6. ASSUME NEW m \in EntriesOf(x)'
          PROVE  m = j
        <3>1. CASE m \in DOMAIN log
            BY <1>1, <2>4, <2>6, <3>1 DEF Grows, EntriesOf
        <3>2. CASE m \notin DOMAIN log
            <4>1. Fresh(m, w, gov) /\ x = w /\ supps'[w].report = r
                BY <1>1, <2>6, <3>2 DEF Grows, EntriesOf, Fresh, Effect
            <4>2. PICK status \in SentBy(gov) : AddsOne(w, r, gov, status) \/ SavesOne(w, r, gov, status)
                BY <4>1 DEF Fresh
            <4> QED
                BY <2>4, <4>1, <4>2 DEF AddsOne, Adds, SavesOne, Saves
        <3> QED
            BY <3>1, <3>2
    <2> QED
        BY <1>3, <2>1, <2>3, <2>4, <2>5, <2>6
<1>5. CASE j \notin DOMAIN log
    <2>1. log[i].status = "SUBMITTED"
        BY <1>2, <1>3
    <2>2. /\ log'[j].supp = w /\ supps'[w].link = log'[i].supp
          /\ \A m \in EntriesOf(w)' : m = j
        BY <1>2, <1>3, <1>5, <2>1, ReturnFollows
    <2>3. PICK v : v = w
        OBVIOUS
    <2> QED
        BY <2>2 DEF EntriesOf
<1> QED
    BY <1>4, <1>5

LEMMA GapsKept ==
    ASSUME Shape, Kept, NEW r \in Reports, NEW gov \in BOOLEAN, NEW w \in Supps, Acts(w, r, gov),
           Paired(r), Tied(r), Gaps(r)
    PROVE  Gaps(r)'
<1> SUFFICES ASSUME NEW i \in Seen(r, TRUE)', NEW j \in Seen(r, TRUE)', i < j,
                    log'[i].status = "SUBMITTED", log'[j].status = "RETURNED"
             PROVE  Hidden(r, i, j)' \/ \E k \in Seen(r, TRUE)' : i < k /\ k < j /\ Lasting(r, k, j)'
    BY DEF Gaps
<1>1. i \in DOMAIN log /\ i \in Seen(r, TRUE) /\ log'[i] = log[i]
    <2>1. CASE i \notin DOMAIN log
        <3>1. Fresh(i, w, gov) /\ j \in DOMAIN log'
            BY <2>1, SeenAfter DEF Seen
        <3>2. j <= i /\ j \in Nat /\ i \in Nat
            BY <3>1 DEF Fresh
        <3> QED
            BY <3>2
    <2> QED
        BY <2>1, SeenAfter
<1>2. CASE j \in DOMAIN log
    <2>1. j \in Seen(r, TRUE) /\ log'[j] = log[j] /\ log[j].supp \in Of(r)'
        BY <1>2, SeenAfter
    <2>2. CASE Hidden(r, i, j)
        BY <2>2, PairStays
    <2>3. ASSUME NEW k \in Seen(r, TRUE), i < k, k < j, Lasting(r, k, j)
          PROVE  \E m \in Seen(r, TRUE)' : i < m /\ m < j /\ Lasting(r, m, j)'
        BY <2>1, <2>3, LastingStays
    <2> QED
        BY <1>1, <2>1, <2>2, <2>3 DEF Gaps
<1>3. CASE j \notin DOMAIN log
    BY <1>1, <1>3, ReturnFollows
<1> QED
    BY <1>2, <1>3

-----------------------------------------------------------------------------
\* What was written before another one was issued, or a reassessment before another
\* one was told of, is not written again.
Settled(r) ==
    \A e \in Seen(r, TRUE), y \in Supps : \A m, n \in EntriesOf(y) :
        /\ supps[y].report = r /\ m < e /\ e < n
        /\ log[e].status = "ASSESSED" \/ (supps[y].gov /\ e \notin PassedOver(Seen(r, TRUE)))
        => log[e].supp = y

LEMMA SettledKept ==
    ASSUME Shape, Kept, NEW r \in Reports, NEW gov \in BOOLEAN, NEW w \in Supps, Acts(w, r, gov),
           Paired(r), Tied(r), Settled(r)
    PROVE  Settled(r)'
<1>1. Grows(w, r, gov) /\ Effect(w, r, gov)
    BY Growing, ActsOn
<1> SUFFICES ASSUME NEW e \in Seen(r, TRUE)', NEW y \in Supps, NEW m \in EntriesOf(y)', NEW n \in EntriesOf(y)',
                    supps'[y].report = r, m < e, e < n,
                    \/ log'[e].status = "ASSESSED"
                    \/ supps'[y].gov /\ e \notin PassedOver(Seen(r, TRUE))'
             PROVE  log'[e].supp = y
    BY DEF Settled
<1>2. /\ m \in DOMAIN log' /\ n \in DOMAIN log' /\ e \in DOMAIN log' /\ log'[m].supp = y /\ log'[n].supp = y
    BY DEF EntriesOf, Seen
<1>3. e \in DOMAIN log /\ e \in Nat
    <2>1. CASE e \notin DOMAIN log
        <3>1. Fresh(e, w, gov)
            BY <1>1, <1>2, <2>1 DEF Grows
        <3>2. n <= e /\ n \in Nat /\ e \in Nat
            BY <1>2, <3>1 DEF Fresh
        <3> QED
            BY <3>2
    <2> QED
        BY <2>1, PlacesAre
<1>4. m \in DOMAIN log /\ m \in Nat
    <2>1. CASE m \notin DOMAIN log
        <3>1. Fresh(m, w, gov)
            BY <1>1, <1>2, <2>1 DEF Grows
        <3>2. e <= m /\ m \in Nat
            BY <1>2, <3>1 DEF Fresh
        <3> QED
            BY <1>3, <3>2
    <2> QED
        BY <2>1, PlacesAre
<1>5. /\ e \in Seen(r, TRUE) /\ log'[e] = log[e] /\ m \in EntriesOf(y)
    BY <1>1, <1>2, <1>3, <1>4, SeenAfter DEF Grows, EntriesOf
<1>6. Made(y) /\ supps[y].report = r /\ supps[y].gov = supps'[y].gov
    BY <1>1, <1>4, <1>5, LoggedAreMade DEF Effect, Same, EntriesOf
<1>7. log[e].status = "ASSESSED" \/ (supps[y].gov /\ e \notin PassedOver(Seen(r, TRUE)))
    BY <1>5, <1>6, OverStays
<1>8. e \in Left(r, TRUE)
    <2>1. ASSUME e \in PassedOver(Seen(r, TRUE))
          PROVE  log[e].status # "ASSESSED"
        <3>1. PICK j : Hidden(r, e, j) \/ Hidden(r, j, e)
            BY <2>1, OverIs
        <3> QED
            BY <3>1 DEF Hidden
    <2> QED
        BY <1>5, <1>7, <2>1 DEF Left
<1>9. CASE n \in DOMAIN log
    <2>1. n \in EntriesOf(y)
        BY <1>1, <1>2, <1>9 DEF Grows, EntriesOf
    <2> QED
        BY <1>5, <1>6, <1>7, <2>1 DEF Settled
<1>10. CASE n \notin DOMAIN log
    <2>1. Fresh(n, w, gov) /\ y = w /\ supps'[w].report = r
        BY <1>1, <1>2, <1>10 DEF Grows, Fresh, Effect
    <2>2. PICK status \in SentBy(gov) : SavesOne(w, r, gov, status)
        BY <1>6, <2>1 DEF Fresh, AddsOne, Adds
    <2>3. w = LatestFor(r, gov) /\ w # 0
        BY <2>2, PlacesAre DEF SavesOne, Saves
    <2>4. PICK p \in Left(r, gov) : log[p].supp = w /\ \A i \in Left(r, gov) : i <= p
        BY <2>3, LatestPlace
    <2>5. e \in Left(r, gov)
        <3>1. CASE gov
            BY <1>8, <3>1
        <3>2. CASE ~gov
            <4>1. ~supps[y].gov
                BY <2>1, <2>2, <3>2 DEF SavesOne
            <4>2. log[e].status = "ASSESSED"
                BY <1>7, <4>1
            <4> QED
                BY <1>5, <3>2, <4>2 DEF Left, Seen
        <3> QED
            BY <3>1, <3>2
    <2>6. p \in DOMAIN log /\ p \in EntriesOf(y) /\ p \in Nat /\ e <= p
        BY <2>1, <2>4, <2>5, PlacesAre DEF Left, Seen, EntriesOf
    <2>7. CASE e = p
        BY <1>5, <2>1, <2>4, <2>7
    <2>8. CASE e < p
        BY <1>5, <1>6, <1>7, <2>6, <2>8 DEF Settled
    <2> QED
        BY <1>3, <2>6, <2>7, <2>8
<1> QED
    BY <1>9, <1>10

Settles(r) == Tied(r) /\ Paired(r) /\ Gaps(r) /\ Settled(r)
Orderly == Kept /\ \A r \in Reports : Settles(r)

\* The other reports have nothing to do with it.
LEMMA OthersSettled ==
    ASSUME Shape, NEW r \in Reports, NEW gov \in BOOLEAN, NEW w \in Supps, Acts(w, r, gov),
           NEW q \in Reports \ {r}, Settles(q)
    PROVE  Settles(q)'
<1>1. Grows(w, r, gov) /\ Effect(w, r, gov)
    BY Growing, ActsOn
<1>2. w \notin Of(q)' /\ w \notin Of(q)
    BY <1>1 DEF Effect, Of
<1>3. Seen(q, TRUE)' = Seen(q, TRUE)
    <2>1. ASSUME NEW i \in Seen(q, TRUE)'
          PROVE  i \in Seen(q, TRUE)
        <3>1. i \in DOMAIN log
            <4>1. i \in DOMAIN log' /\ log'[i].supp \in Of(q)'
                BY <2>1 DEF Seen
            <4>2. Fresh(i, w, gov) => log'[i].supp = w
                BY DEF Fresh
            <4> QED
                BY <1>1, <1>2, <4>1, <4>2 DEF Grows
        <3> QED
            BY <1>1, <2>1, <3>1 DEF Grows
    <2>2. ASSUME NEW i \in Seen(q, TRUE)
          PROVE  i \in Seen(q, TRUE)'
        <3>1. i \in DOMAIN log /\ log[i].supp \in Of(q) /\ log[i].supp \in Supps
            BY <2>2, LoggedAreMade DEF Seen
        <3>2. log[i].supp \in Of(q)'
            BY <1>1, <3>1 DEF Effect
        <3> QED
            BY <1>1, <2>2, <3>1, <3>2 DEF Grows
    <2> QED
        BY <2>1, <2>2
<1>4. \A i \in Seen(q, TRUE) : i \in DOMAIN log /\ log'[i] = log[i] /\ log[i].supp \in Of(q) /\ log[i].supp \in Supps
    BY <1>1, LoggedAreMade DEF Seen, Grows
<1>5. ASSUME NEW s, s # w
      PROVE  /\ EntriesOf(s)' = EntriesOf(s)
             /\ \A m \in EntriesOf(s) : m \in DOMAIN log /\ log'[m] = log[m]
    BY <1>1, <1>5 DEF Grows, EntriesOf, Fresh
<1>6. \A s \in Of(q) : /\ s # w /\ s \in Supps /\ s \in Of(q)'
                       /\ supps'[s].link = supps[s].link /\ supps'[s].gov = supps[s].gov
    BY <1>1, <1>2, OfIsMade DEF Effect, Same
<1>7. ASSUME NEW i, NEW j
      PROVE  Hidden(q, i, j)' <=> Hidden(q, i, j)
    BY <1>3, <1>4 DEF Hidden
<1>8. PassedOver(Seen(q, TRUE))' = PassedOver(Seen(q, TRUE))
    <2>1. \A i \in Seen(q, TRUE) : log'[i] = log[i]
        BY <1>4
    <2>2. \A i : i \in PassedOver(Seen(q, TRUE))' <=> \E j : Hidden(q, i, j)' \/ Hidden(q, j, i)'
        BY DEF PassedOver, Hidden
    <2>3. \A i : i \in PassedOver(Seen(q, TRUE)) <=> \E j : Hidden(q, i, j) \/ Hidden(q, j, i)
        BY OverIs
    <2>4. \A i : i \in PassedOver(Seen(q, TRUE))' <=> i \in PassedOver(Seen(q, TRUE))
        BY <1>7, <2>2, <2>3
    <2>5. PassedOver(Seen(q, TRUE))' \subseteq Seen(q, TRUE) /\ PassedOver(Seen(q, TRUE)) \subseteq Seen(q, TRUE)
        BY <1>3 DEF PassedOver
    <2>6. PICK S, T : S = PassedOver(Seen(q, TRUE))' /\ T = PassedOver(Seen(q, TRUE))
        OBVIOUS
    <2>7. \A i : i \in S <=> i \in T
        BY <2>4, <2>6
    <2> QED
        BY <2>6, <2>7
<1>9. Tied(q)'
    <2> SUFFICES ASSUME NEW j \in Seen(q, TRUE), NEW x \in Supps, ReturnedFirst(x, j)', supps'[x].link # 0
                 PROVE  Answered(supps[x].link, q, j)'
        BY <1>3 DEF Tied
    <2>1. x = log[j].supp /\ x \in Of(q) /\ x # w
        BY <1>4, <1>6 DEF ReturnedFirst
    <2>2. ReturnedFirst(x, j) /\ supps'[x].link = supps[x].link
        BY <1>4, <1>5, <1>6, <2>1 DEF ReturnedFirst
    <2>3. PICK v : v = supps[x].link
        OBVIOUS
    <2>4. Answered(v, q, j)
        BY <2>2, <2>3 DEF Tied, Settles
    <2>5. v \in Of(q)' /\ ~supps'[v].gov /\ v # w
        BY <1>6, <2>4 DEF Answered
    <2>6. \A m \in EntriesOf(v)' : j < m => log'[m].gov
        BY <1>5, <2>4, <2>5 DEF Answered
    <2>7. Answered(v, q, j)'
        BY <2>5, <2>6 DEF Answered
    <2> QED
        BY <2>2, <2>3, <2>7
<1>10. Paired(q)'
    <2> SUFFICES ASSUME NEW i, NEW j, Hidden(q, i, j)
                 PROVE  /\ supps'[log'[j].supp].link = log'[i].supp
                        /\ \A m \in EntriesOf(log[j].supp)' : m = j
        BY <1>7 DEF Paired
    <2>1. i \in Seen(q, TRUE) /\ j \in Seen(q, TRUE)
        BY DEF Hidden
    <2>2. PICK x : x = log[j].supp
        OBVIOUS
    <2>3. x \in Of(q) /\ x # w /\ supps[x].link = log[i].supp /\ \A m \in EntriesOf(x) : m = j
        BY <1>4, <1>6, <2>1, <2>2 DEF Paired, Settles
    <2>4. EntriesOf(x)' = EntriesOf(x) /\ log'[j] = log[j] /\ log'[i] = log[i] /\ supps'[x].link = supps[x].link
        BY <1>4, <1>5, <1>6, <2>1, <2>3
    <2> QED
        BY <2>2, <2>3, <2>4
<1>11. Gaps(q)'
    <2> SUFFICES ASSUME NEW i \in Seen(q, TRUE), NEW j \in Seen(q, TRUE), i < j,
                        log'[i].status = "SUBMITTED", log'[j].status = "RETURNED", ~Hidden(q, i, j)
                 PROVE  \E k \in Seen(q, TRUE)' : i < k /\ k < j /\ Lasting(q, k, j)'
        BY <1>3, <1>7 DEF Gaps
    <2>1. log'[i] = log[i] /\ log'[j] = log[j]
        BY <1>4
    <2>2. PICK k \in Seen(q, TRUE) : i < k /\ k < j /\ Lasting(q, k, j)
        BY <2>1 DEF Settles, Gaps
    <2>3. log'[k] = log[k] /\ log[j].supp \in Of(q) /\ log[j].supp # w
        BY <1>4, <1>6
    <2>4. supps'[log[j].supp].link = supps[log[j].supp].link
        BY <1>6, <2>3
    <2>5. PICK x : x = log[j].supp
        OBVIOUS
    <2>6. ASSUME NEW m \in DOMAIN log, ReturnedFirst(x, m)
          PROVE  m \in DOMAIN log' /\ ReturnedFirst(x, m)'
        BY <1>1, <1>5, <2>3, <2>5, <2>6 DEF Grows, ReturnedFirst
    <2>7. Lasting(q, k, j)'
        BY <1>8, <2>1, <2>2, <2>3, <2>4, <2>5, <2>6 DEF Lasting
    <2> QED
        BY <1>3, <2>2, <2>7
<1>12. Settled(q)'
    <2> SUFFICES ASSUME NEW e \in Seen(q, TRUE), NEW y \in Supps, NEW m \in EntriesOf(y)', NEW n \in EntriesOf(y)',
                        supps'[y].report = q, m < e, e < n,
                        log'[e].status = "ASSESSED" \/ (supps'[y].gov /\ e \notin PassedOver(Seen(q, TRUE)))
                 PROVE  log'[e].supp = y
        BY <1>3, <1>8 DEF Settled
    <2>1. y # w
        BY <1>1 DEF Effect
    <2>2. m \in EntriesOf(y) /\ n \in EntriesOf(y)
        BY <1>5, <2>1
    <2>3. Made(y)
        BY <2>2, LoggedAreMade DEF EntriesOf
    <2>4. supps[y].report = q /\ supps'[y].gov = supps[y].gov /\ log'[e] = log[e]
        BY <1>1, <1>4, <2>3 DEF Effect, Same
    <2> QED
        BY <2>2, <2>4 DEF Settles, Settled
<1> QED
    BY <1>9, <1>10, <1>11, <1>12 DEF Settles

LEMMA OrderlyStep ==
    ASSUME Shape, Orderly, SupplementalStep
    PROVE  Orderly'
<1>1. Kept
    BY DEF Orderly
<1>2. PICK r \in Reports, gov \in BOOLEAN : \E w \in Supps : Acts(w, r, gov)
    BY <1>1, StepActs
<1>3. PICK w \in Supps : Acts(w, r, gov)
    BY <1>2
<1>4. Kept'
    BY <1>1, <1>3, KeptKept
<1>5. Tied(r) /\ Paired(r) /\ Gaps(r) /\ Settled(r)
    BY DEF Orderly, Settles
<1>6. Settles(r)'
    BY <1>1, <1>3, <1>5, TiedKept, PairedKept, GapsKept, SettledKept DEF Settles
<1>7. ASSUME NEW q \in Reports \ {r}
      PROVE  Settles(q)'
    BY <1>3, OthersSettled DEF Orderly
<1> QED
    BY <1>4, <1>6, <1>7 DEF Orderly

LEMMA OrderlyInitially ==
    ASSUME Init
    PROVE  Orderly
<1>1. log = << >> /\ \A s \in Supps : ~Made(s)
    BY DEF Init, NoSupp, Made
<1>2. DOMAIN log = {}
    BY <1>1
<1>3. Kept
    BY <1>1, <1>2 DEF Kept, EntryKinds, StatusTold, EndsTold, InOrder
<1>4. \A r : Seen(r, TRUE) = {}
    BY <1>2 DEF Seen
<1>5. \A r : Settles(r)
    BY <1>4 DEF Settles, Tied, Paired, Gaps, Settled, Hidden
<1> QED
    BY <1>3, <1>5 DEF Orderly

LEMMA StepOfSupplementals ==
    ASSUME [Next]_vars
    PROVE  UNCHANGED suppVars \/ SupplementalStep
BY DEF Next, vars

\* Once a reassessment is issued, or told of at all, nothing is written again of
\* what was there before: nothing of the supplier's after the first, and no other
\* reassessment after the second unless what came between is passed over.
THEOREM WrittenInOrder == Spec => []Orderly
<1>1. Init => Orderly
    BY OrderlyInitially
<1>2. ASSUME UNCHANGED suppVars
      PROVE  Orderly => Orderly'
    BY <1>2 DEF suppVars, Orderly, Kept, EntryKinds, StatusTold, NewestEntry, EntriesOf, EndsTold, InOrder,
                Made, Settles, Tied, Paired, Gaps, Settled, Hidden, Seen, Of, PassedOver, Lasting, Answered,
                ReturnedFirst
<1>3. Shape /\ Orderly /\ [Next]_vars => Orderly'
    BY <1>2, OrderlyStep, StepOfSupplementals
<1> QED
    BY <1>1, <1>3, SupplementalsOfAssessed, PTL DEF Spec

\* The reassessment that the government's requests change was begun after every
\* submission that is not passed over: one that an earlier request left beside a
\* submission is not gone on with, because what was written of it before and
\* what is written of it later would have the submission between them.
LEMMA AnswersWhatIsSeen ==
    ASSUME Shape, Orderly
    PROVE  ReassessmentAnswers
<1> SUFFICES ASSUME NEW r \in Reports, NEW t, t = LatestFor(r, TRUE), t # 0, supps[t].gov,
                    NEW i \in Left(r, TRUE), log[i].status = "SUBMITTED",
                    NEW j \in DOMAIN log, log[j].supp = t
             PROVE  i < j
    BY DEF ReassessmentAnswers, Left
<1>1. PICK n \in Left(r, TRUE) : log[n].supp = t /\ \A m \in Left(r, TRUE) : m <= n
    BY LatestPlace
<1>2. i \in DOMAIN log /\ log[i].supp # t
    BY DEF Orderly, Kept, EntryKinds, Left, Seen
<1>3. /\ i \in Seen(r, TRUE) /\ i \notin PassedOver(Seen(r, TRUE))
      /\ n \in DOMAIN log /\ log[n].supp \in Of(r)
    BY <1>1 DEF Left, Seen
<1>4. i < n
    <2>1. i \in Nat /\ n \in Nat /\ i <= n /\ i # n
        BY <1>1, <1>2, <1>3, PlacesAre
    <2> QED
        BY <2>1
<1>5. t \in Supps /\ supps[t].report = r
    BY <1>1, <1>3 DEF Of
<1>6. j \in EntriesOf(t) /\ n \in EntriesOf(t)
    BY <1>1, <1>3 DEF EntriesOf
<1>7. Settled(r)
    BY DEF Orderly, Settles
<1>8. ASSUME j < i
      PROVE  log[i].supp = t
    BY <1>3, <1>4, <1>5, <1>6, <1>7, <1>8 DEF Settled
<1>9. i \in Nat /\ j \in Nat /\ i # j
    BY <1>2, PlacesAre
<1>10. ~(j < i)
    BY <1>2, <1>8
<1> QED
    BY <1>9, <1>10

\* Whatever drafts a submission leaves, the government goes on with none begun
\* before it.
THEOREM AnswersSubmissions == Spec => []ReassessmentAnswers
BY AnswersWhatIsSeen, SupplementalsOfAssessed, WrittenInOrder, PTL

-----------------------------------------------------------------------------
\* One at a time, each is linked to the one made before it

LEMMA OneIsLess ==
    ASSUME NEW a \in Nat, NEW b \in Nat
    PROVE  a < b \/ b < a \/ a = b
OBVIOUS

LEMMA LinkedInOrder ==
    ASSUME History, NEW r, OneAtATime(r), NEW t \in Of(r)
    PROVE  /\ supps[t].link \in Of(r) \union {0} /\ supps[t].link < t
           /\ ~ \E x \in Of(r) : supps[t].link < x /\ x < t
<1> DEFINE Skips(s) == \E x \in Of(r) : supps[s].link < x /\ x < s
           S == {s \in Of(r) : Skips(s)}
<1>1. \A y \in Of(r) : y \in Supps /\ y \in Nat /\ y # 0
    BY SupplementalsAssumption DEF Of, Supps
<1>2. ASSUME NEW s \in Of(r)
      PROVE  /\ supps[s].link \in Of(r) \union {0} /\ supps[s].link < s
             /\ \A q \in Of(r) : supps[q].link = supps[s].link => q = s
    <2>1. supps[s].link \in Of(r) \union {0} /\ \A q \in Of(r) : supps[q].link = supps[s].link => q = s
        BY DEF OneAtATime
    <2>2. supps[s].link # 0 => supps[s].link < s
        BY <1>1 DEF History
    <2>3. s \in Nat /\ s # 0
        BY <1>1
    <2> QED
        BY <2>1, <2>2, <2>3
<1>3. S = {}
    <2> SUFFICES ASSUME S # {} PROVE FALSE
        OBVIOUS
    <2>1. PICK s \in S : \A q \in S : s <= q
        <3>1. S \in SUBSET Nat
            BY <1>1
        <3> QED
            BY <3>1, LeastNumber
    <2>2. PICK x \in Of(r) : supps[s].link < x /\ x < s
        BY <2>1
    <2>3. PICK p : p = supps[s].link
        OBVIOUS
    <2>4. p \in Of(r) \union {0} /\ p \in Nat /\ p < x /\ s \in Of(r)
        BY <1>1, <1>2, <2>1, <2>2, <2>3
    <2>5. PICK n \in {y \in Of(r) : p < y} : \A y \in {y \in Of(r) : p < y} : n <= y
        <3>1. {y \in Of(r) : p < y} \in SUBSET Nat
            BY <1>1
        <3> QED
            BY <2>2, <2>4, <3>1, LeastNumber
    <2>6. n \in Of(r) /\ n \in Nat /\ n <= x /\ x \in Nat /\ s \in Nat /\ p < n
        BY <1>1, <2>1, <2>2, <2>4, <2>5
    <2>7. n < s
        BY <2>2, <2>6
    <2>8. n \notin S
        BY <1>1, <2>1, <2>6, <2>7
    <2>9. supps[n].link \in Nat /\ supps[n].link < n /\ supps[n].link \in Of(r) \union {0}
        <3>1. supps[n].link \in Of(r) \union {0} /\ supps[n].link < n
            BY <1>2, <2>6
        <3>2. \A y \in Of(r) \union {0} : y \in Nat
            BY <1>1
        <3> QED
            BY <3>1, <3>2
    <2>10. ~ (supps[n].link < p)
        <3>1. ~Skips(n)
            BY <2>6, <2>8
        <3> HIDE DEF S
        <3>2. p # 0 => ~(supps[n].link < p)
            BY <2>4, <2>6, <3>1
        <3> QED
            BY <2>4, <2>9, <3>2
    <2>11. ~ (p < supps[n].link)
        BY <2>4, <2>5, <2>6, <2>9
    <2>12. supps[n].link = p
        BY <2>4, <2>9, <2>10, <2>11
    <2> QED
        BY <1>2, <2>3, <2>4, <2>6, <2>7, <2>12
<1> QED
    BY <1>2, <1>3

\* So there is one linked to each but the last.
LEMMA FollowedUp ==
    ASSUME History, NEW r, OneAtATime(r), NEW u \in Of(r), NEW s \in Of(r), u < s
    PROVE  \E t \in Linked(r, u) : u < t /\ t <= s
<1>1. \A y \in Of(r) : y \in Supps /\ y \in Nat /\ y # 0
    BY SupplementalsAssumption DEF Of, Supps
<1>2. PICK t \in {y \in Of(r) : u < y} : \A y \in {y \in Of(r) : u < y} : t <= y
    <2>1. {y \in Of(r) : u < y} \in SUBSET Nat
        BY <1>1
    <2> QED
        BY <2>1, LeastNumber
<1>3. t \in Of(r) /\ t \in Nat /\ u \in Nat /\ s \in Nat /\ u < t /\ t <= s
    BY <1>1, <1>2
<1>4. /\ supps[t].link \in Of(r) \union {0} /\ supps[t].link < t
      /\ ~ \E x \in Of(r) : supps[t].link < x /\ x < t
    BY <1>2, LinkedInOrder
<1>5. PICK p : p = supps[t].link
    OBVIOUS
<1>6. p \in Nat /\ p < t /\ ~ (p < u)
    <2>1. p \in Of(r) \union {0} /\ p < t /\ ~ \E x \in Of(r) : p < x /\ x < t
        BY <1>4, <1>5
    <2>2. \A y \in Of(r) \union {0} : y \in Nat
        BY <1>1
    <2> QED
        BY <1>3, <2>1, <2>2
<1>7. ~ (u < p)
    <2>1. p \in Of(r) => ~ (u < p)
        BY <1>1, <1>2, <1>3, <1>6
    <2> QED
        BY <1>1, <1>3, <1>4, <1>5, <2>1
<1>8. supps[t].link = u
    BY <1>3, <1>5, <1>6, <1>7
<1> QED
    BY <1>3, <1>8 DEF Linked

-----------------------------------------------------------------------------
\* An issued reassessment stays issued

\* One that is open for the government, whose page sends the requests.
Open(r, u) ==
    /\ u \in Of(r)
    /\ IF supps[u].gov THEN supps[u].status \in {"DRAFT", "RETURNED", "RECOMMENDED"}
       ELSE supps[u].status = "SUBMITTED" /\ (Linked(r, u) = {} \/ \E t \in Linked(r, u) : ~supps[t].gov)

LEMMA SentFromOpen ==
    ASSUME Shape, Kept, NEW r \in Reports, Sends(r, TRUE)
    PROVE  \E u \in Supps : Open(r, u)
<1>1. PICK u \in Of(r) : GovOffers(u)
    BY DEF Sends
<1>2. u \in Supps /\ supps[u].report = r /\ supps[u].gov \in BOOLEAN
    BY OfIsMade DEF Shape, SuppsShape, IsSupp
<1>3. PICK i \in DOMAIN log : log[i].supp = u /\ log[i].status = supps[u].status
    BY OfTold
<1>4. Listed(u, TRUE)
    BY <1>1 DEF GovOffers
<1>5. CASE supps[u].gov
    <2>1. supps[u].status # "SUBMITTED"
        BY <1>3, <1>5 DEF Kept, EntryKinds
    <2>2. ActualStatus(u, TRUE) = {supps[u].status}
        BY <1>2, <1>5 DEF ActualStatus
    <2>3. supps[u].status \in {"DRAFT", "RETURNED", "RECOMMENDED"}
        BY <1>1, <1>5, <2>1, <2>2 DEF GovOffers, DirectorOffers, AnalystMayEdit, AnalystReturns
    <2> QED
        BY <1>1, <1>2, <1>5, <2>3 DEF Open
<1>6. CASE ~supps[u].gov
    <2>1. supps[u].status \in {"DRAFT", "SUBMITTED", "DELETED"}
        BY <1>3, <1>6 DEF Kept, EntryKinds
    <2>2. supps[u].status = "SUBMITTED" /\ (Linked(r, u) = {} \/ \E t \in Linked(r, u) : ~supps[t].gov)
        BY <1>2, <1>4, <1>6, <2>1 DEF Listed, Of
    <2> QED
        BY <1>1, <1>2, <1>6, <2>2 DEF Open
<1> QED
    BY <1>2, <1>5, <1>6

\* Nothing is open beside an issued one that is the latest.
LEMMA IssuedIsAlone ==
    ASSUME Shape, Orderly, History, NEW r \in Reports, OneAtATime(r), PassedOver(Seen(r, TRUE)) = {},
           NEW s \in Of(r), s = LatestFor(r, TRUE), supps[s].gov, supps[s].status = "ASSESSED",
           NEW u \in Supps, Open(r, u)
    PROVE  FALSE
<1>1. /\ u \in Of(r) /\ u \in Nat /\ s \in Nat /\ s \in Supps /\ supps[s].report = r /\ s # 0
      /\ supps[u].gov \in BOOLEAN
    BY OfIsMade, PlacesAre DEF Open, Shape, SuppsShape, IsSupp
<1>2. u # s
    BY DEF Open
<1>3. CASE s < u
    <2>1. Kept
        BY DEF Orderly
    <2>2. PICK m \in DOMAIN log : log[m].supp = u /\ log[m].status = supps[u].status
        BY <1>1, <2>1, OfTold
    <2>3. m \in Seen(r, TRUE)
        <3>1. log[m].status = "DRAFT" => log[m].gov = TRUE
            BY <1>1, <2>1, <2>2 DEF Kept, EntryKinds, Open
        <3> QED
            BY <1>1, <2>2, <3>1 DEF Seen
    <2>4. PICK n \in Left(r, TRUE) : log[n].supp = s /\ \A k \in Left(r, TRUE) : k <= n
        BY <1>1, LatestPlace
    <2>5. n \in DOMAIN log /\ n \in Nat /\ m \in Nat /\ m \in Left(r, TRUE)
        BY <2>2, <2>3, <2>4, PlacesAre DEF Left, Seen
    <2>6. m <= n /\ m # n
        BY <1>2, <2>2, <2>4, <2>5
    <2>7. PICK i \in EntriesOf(s) : i < m
        BY <1>1, <1>3, <2>1, <2>2 DEF Kept, InOrder
    <2>8. n \in EntriesOf(s) /\ m < n
        <3>1. n \in EntriesOf(s)
            BY <2>4, <2>5 DEF EntriesOf
        <3>2. ~ (n < m)
            BY <2>5, <2>6
        <3> QED
            BY <2>5, <2>6, <3>1, <3>2, OneIsLess
    <2>9. Settled(r)
        BY DEF Orderly, Settles
    <2>10. ~ (i < m /\ m < n)
        <3>1. m \notin PassedOver(Seen(r, TRUE))
            OBVIOUS
        <3>2. log[m].supp # s
            BY <1>2, <2>2
        <3> QED
            BY <1>1, <2>3, <2>7, <2>8, <2>9, <3>1, <3>2 DEF Settled
    <2> QED
        BY <2>7, <2>8, <2>10
<1>4. CASE u < s
    <2>1. PICK t \in Linked(r, u) : TRUE
        BY <1>1, <1>4, FollowedUp
    <2>2. \A q \in Linked(r, u) : q \in Of(r) /\ supps[q].link = u
        BY DEF Linked
    <2>3. \A q \in Linked(r, u) : IF supps[u].gov THEN supps[u].status = "ASSESSED" ELSE supps[q].gov
        BY <1>1, <2>2 DEF OneAtATime
    <2> QED
        BY <1>1, <2>1, <2>3 DEF Open
<1>5. u < s \/ s < u
    <2>1. u \in Nat /\ s \in Nat
        BY <1>1
    <2> QED
        BY <1>2, <2>1, OneIsLess
<1> QED
    BY <1>3, <1>4, <1>5

LEMMA IssuedStays ==
    ASSUME Shape, Orderly, History, SupplementalStep, NEW s \in Supps, supps[s].gov,
           supps[s].status = "ASSESSED", OneAtATime(supps[s].report),
           PassedOver(Seen(supps[s].report, TRUE)) = {}
    PROVE  supps'[s].status = "ASSESSED"
<1>1. Kept
    BY DEF Orderly
<1>2. PICK r \in Reports, gov \in BOOLEAN, w \in Supps : Acts(w, r, gov)
    BY <1>1, StepActs
<1>3. Made(s)
    BY DEF Made
<1>4. CASE s # w
    <2>1. \A status : Adds(w, r, gov, status) => supps'[s] = supps[s]
        BY <1>4 DEF Adds
    <2>2. \A status : Saves(w, r, gov, status) => supps'[s] = supps[s]
        BY <1>4 DEF Saves
    <2>3. Drops(w, r, gov) => supps'[s] = supps[s]
        BY <1>4 DEF Drops
    <2> QED
        BY <1>2, <2>1, <2>2, <2>3 DEF Acts, AddsOne, SavesOne, DropsOne
<1>5. CASE s = w
    <2>1. \A status : ~Adds(w, r, gov, status)
        BY <1>3, <1>5 DEF Adds
    <2>2. ~Drops(w, r, gov)
        BY <1>5 DEF Drops
    <2>3. PICK status \in SentBy(gov) : SavesOne(w, r, gov, status)
        BY <1>2, <2>1, <2>2 DEF Acts, AddsOne, DropsOne
    <2>4. Sends(r, gov) /\ Saves(w, r, gov, status) /\ gov = TRUE
        BY <1>5, <2>3 DEF SavesOne
    <2>5. s \in Of(r) /\ s = LatestFor(r, TRUE) /\ supps[s].report = r
        BY <1>5, <2>4 DEF Saves, Of
    <2>6. PICK u \in Supps : Open(r, u)
        BY <1>1, <2>4, SentFromOpen
    <2> QED
        BY <2>5, <2>6, IssuedIsAlone
<1> QED
    BY <1>4, <1>5

\* An issued reassessment is not written again as long as supplemental reports are
\* made one at a time: whoever finds it the latest finds nothing open to send from.
THEOREM IssuedIsFinal == Spec => IssuedStaysIssued
<1> DEFINE Stay == \A s \in Supps :
                /\ supps[s].gov /\ supps[s].status = "ASSESSED" /\ OneAtATime(supps[s].report)
                /\ PassedOver(Seen(supps[s].report, TRUE)) = {}
                => supps'[s].status = "ASSESSED"
<1>1. ASSUME Shape, Orderly, History, [Next]_vars
      PROVE  [Stay]_vars
    <2>1. CASE UNCHANGED suppVars
        BY <2>1 DEF suppVars
    <2>2. CASE SupplementalStep
        BY <1>1, <2>2, IssuedStays
    <2> QED
        BY <1>1, <2>1, <2>2, StepOfSupplementals
<1> QED
    BY <1>1, SupplementalsOfAssessed, WrittenInOrder, HistoryTold, PTL DEF Spec, IssuedStaysIssued

-----------------------------------------------------------------------------
\* What there was before a reassessment was issued stays as it is

IssuedAt(s, a) == a \in EntriesOf(s) /\ log[a].status = "ASSESSED"
ToldBefore(v, a) == \E m \in EntriesOf(v) : m < a
Frozen(v, s) == \E a \in EntriesOf(s) : IssuedAt(s, a) /\ ToldBefore(v, a)

\* Everybody sees that it was issued.
LEMMA IssuedIsLeft ==
    ASSUME Shape, NEW r, NEW s \in Of(r), NEW a \in EntriesOf(s), log[a].status = "ASSESSED",
           NEW gov \in BOOLEAN
    PROVE  a \in Nat /\ a \in DOMAIN log /\ log[a].supp = s /\ a \in Seen(r, gov) /\ a \in Left(r, gov)
<1>1. a \in DOMAIN log /\ log[a].supp = s
    BY DEF EntriesOf
<1>2. a \in Seen(r, gov)
    BY <1>1 DEF Seen
<1>3. a \notin PassedOver(Seen(r, TRUE))
    BY OverIs DEF Hidden
<1> QED
    BY <1>1, <1>2, <1>3, PlacesAre DEF Left

LEMMA FrozenIs ==
    ASSUME Shape, NEW r, Settled(r), NEW s \in Of(r), NEW a \in EntriesOf(s), log[a].status = "ASSESSED",
           NEW v \in Supps, supps[v].report = r, v # s, ToldBefore(v, a)
    PROVE  /\ \A m \in EntriesOf(v) : m < a
           /\ \A gov \in BOOLEAN : v # LatestFor(r, gov)
<1>1. a \in Nat /\ a \in DOMAIN log /\ log[a].supp = s /\ a \in Seen(r, TRUE)
    BY IssuedIsLeft
<1>2. PICK m \in EntriesOf(v) : m < a
    BY DEF ToldBefore
<1>3. ASSUME NEW n \in EntriesOf(v)
      PROVE  n < a
    <2>1. n \in Nat /\ n # a
        BY <1>1, PlacesAre DEF EntriesOf
    <2>2. ~ (a < n)
        BY <1>1, <1>2 DEF Settled
    <2> QED
        BY <1>1, <2>1, <2>2, OneIsLess
<1>4. ASSUME NEW gov \in BOOLEAN, v = LatestFor(r, gov)
      PROVE  FALSE
    <2>1. v # 0
        BY PlacesAre
    <2>2. PICK n \in Left(r, gov) : log[n].supp = v /\ \A k \in Left(r, gov) : k <= n
        BY <1>4, <2>1, LatestPlace
    <2>3. n \in DOMAIN log /\ n \in Nat
        BY PlacesAre DEF Left, Seen
    <2>4. n < a
        BY <1>3, <2>2, <2>3 DEF EntriesOf
    <2>5. a <= n
        BY <2>2, IssuedIsLeft
    <2> QED
        BY <1>1, <2>3, <2>4, <2>5
<1> QED
    BY <1>3, <1>4

\* What is not the latest is only ended, as a draft, by what the supplier submits.
Stands(v, r) ==
    supps'[v] = supps[v] \/ (v \in Of(r) /\ v \notin Of(r)' /\ supps[v].gov /\ supps[v].status = "DRAFT")
LEMMA OthersStand ==
    ASSUME Shape, NEW r \in Reports, NEW gov \in BOOLEAN, NEW w \in Supps, Acts(w, r, gov),
           NEW v \in Supps, v # w
    PROVE  /\ Stands(v, r)
           /\ supps'[v] # supps[v] => gov = FALSE /\ SavesOne(w, r, FALSE, "SUBMITTED")
<1>1. CASE \E status \in SentBy(gov) : AddsOne(w, r, gov, status)
    BY <1>1 DEF AddsOne, Adds, Stands
<1>2. CASE \E status \in SentBy(gov) : SavesOne(w, r, gov, status)
    <2>1. PICK status \in SentBy(gov) : SavesOne(w, r, gov, status)
        BY <1>2
    <2>2. Saves(w, r, gov, status)
        BY <2>1 DEF SavesOne
    <2>3. CASE supps'[v] = supps[v]
        BY <2>3 DEF Stands
    <2>4. CASE supps'[v] # supps[v]
        <3>1. /\ status = "SUBMITTED" /\ v \in Of(r) /\ supps[v].gov /\ supps[v].status = "DRAFT"
              /\ supps'[v].status = "DELETED"
            BY <2>2, <2>4 DEF Saves
        <3>2. v \notin Of(r)'
            BY <3>1 DEF Of
        <3>3. gov = FALSE
            BY <2>1, <3>1 DEF SentBy
        <3> QED
            BY <2>1, <3>1, <3>2, <3>3 DEF Stands
    <2> QED
        BY <2>3, <2>4
<1>3. CASE DropsOne(w, r, gov)
    BY <1>3 DEF DropsOne, Drops, Stands
<1> QED
    BY <1>1, <1>2, <1>3 DEF Acts

LEMMA WrittenIsLatest ==
    ASSUME Shape, NEW r \in Reports, NEW gov \in BOOLEAN, NEW w \in Supps, Acts(w, r, gov), Made(w)
    PROVE  w = LatestFor(r, gov)
BY DEF Acts, AddsOne, Adds, SavesOne, Saves, DropsOne, Drops

\* So is what was there before one was issued.
Past(v, w, r) == v # w /\ Made(v) /\ \A g \in BOOLEAN : v # LatestFor(r, g)
LEMMA FrozenStays ==
    ASSUME Shape, NEW r \in Reports, NEW gov \in BOOLEAN, NEW w \in Supps, Acts(w, r, gov), Settled(r),
           NEW s \in Of(r), NEW v \in Supps, supps[v].report = r, v # s, Frozen(v, s)
    PROVE  Past(v, w, r) /\ Stands(v, r)
<1>1. PICK a \in EntriesOf(s) : log[a].status = "ASSESSED" /\ ToldBefore(v, a)
    BY DEF Frozen, IssuedAt
<1>2. \A g \in BOOLEAN : v # LatestFor(r, g)
    BY <1>1, FrozenIs
<1>3. Made(v)
    BY <1>1, LoggedAreMade DEF ToldBefore, EntriesOf
<1>4. v # w
    BY <1>2, <1>3, WrittenIsLatest
<1>5. Stands(v, r)
    BY <1>4, OthersStand
<1> QED
    BY <1>2, <1>3, <1>4, <1>5 DEF Past

LEMMA EntriesStay ==
    ASSUME Shape, NEW r \in Reports, NEW gov \in BOOLEAN, NEW w \in Supps, Acts(w, r, gov), NEW s
    PROVE  /\ \A m \in EntriesOf(s) : m \in EntriesOf(s)' /\ log'[m] = log[m]
           /\ \A m \in EntriesOf(s)' : \/ m \in EntriesOf(s) /\ log'[m] = log[m]
                                       \/ m \notin DOMAIN log /\ s = w /\ Fresh(m, w, gov)
BY Growing DEF Grows, EntriesOf, Fresh

LEMMA FrozenKept ==
    ASSUME Shape, NEW r \in Reports, NEW gov \in BOOLEAN, NEW w \in Supps, Acts(w, r, gov),
           NEW v, NEW s, Frozen(v, s)
    PROVE  Frozen(v, s)'
<1>1. PICK a \in EntriesOf(s), m \in EntriesOf(v) : log[a].status = "ASSESSED" /\ m < a
    BY DEF Frozen, IssuedAt, ToldBefore
<1>2. a \in EntriesOf(s)' /\ m \in EntriesOf(v)' /\ log'[a] = log[a]
    BY EntriesStay
<1>3. ToldBefore(v, a)'
    BY <1>1, <1>2 DEF ToldBefore
<1>4. IssuedAt(s, a)'
    BY <1>1, <1>2 DEF IssuedAt
<1> QED
    BY <1>2, <1>3, <1>4 DEF Frozen

\* A link to what is not the latest is not new.
LEMMA LinksStand ==
    ASSUME Shape, NEW r \in Reports, NEW gov \in BOOLEAN, NEW w \in Supps, Acts(w, r, gov),
           NEW u, u # LatestFor(r, gov)
    PROVE  /\ \A t \in Linked(r, u)' : t \in Linked(r, u)
           /\ \A t \in Linked(r, u) : t \in Of(r)' => t \in Linked(r, u)'
<1>1. Effect(w, r, gov)
    BY ActsOn
<1>2. ASSUME NEW t \in Linked(r, u)'
      PROVE  t \in Linked(r, u)
    <2>1. t \in Of(r)' /\ supps'[t].link = u /\ t \in Supps
        BY <1>2 DEF Linked, Of
    <2>2. CASE t \in Of(r)
        BY <1>1, <2>1, <2>2, OfIsMade DEF Effect, Same, Linked
    <2>3. CASE t = w /\ ~Made(w)
        <3>1. supps'[w].link = LatestFor(r, gov)
            BY <2>3, OfIsMade DEF Acts, AddsOne, Adds, SavesOne, Saves, DropsOne, Drops
        <3> QED
            BY <2>1, <2>3, <3>1
    <2> QED
        BY <1>1, <2>1, <2>2, <2>3 DEF Effect
<1>3. ASSUME NEW t \in Linked(r, u), t \in Of(r)'
      PROVE  t \in Linked(r, u)'
    BY <1>1, <1>3, OfIsMade DEF Effect, Same, Linked
<1> QED
    BY <1>2, <1>3

-----------------------------------------------------------------------------
\* The list of the supplemental reports, in the order of their links

\* A sequence of numbers is given by its first and by what follows each.
LEMMA SequenceExists ==
    ASSUME NEW F \in [Nat -> Nat], NEW init \in Nat, NEW N \in Nat
    PROVE  \E g \in [1 .. N -> Nat] : \A n \in 1 .. N : g[n] = IF n = 1 THEN init ELSE F[g[n - 1]]
<1> DEFINE Has(k) == \E g \in [1 .. k -> Nat] : \A n \in 1 .. k : g[n] = IF n = 1 THEN init ELSE F[g[n - 1]]
           S == {k \in Nat : ~Has(k)}
<1> SUFFICES ASSUME S # {} PROVE FALSE
    BY DEF S
<1>1. PICK k \in S : \A m \in S : k <= m
    BY LeastNumber
<1>2. k # 0
    <2>1. [n \in 1 .. 0 |-> 0] \in [1 .. 0 -> Nat]
        OBVIOUS
    <2> DEFINE g == [n \in 1 .. 0 |-> 0]
    <2>2. \A n \in 1 .. 0 : g[n] = IF n = 1 THEN init ELSE F[g[n - 1]]
        BY SMT
    <2>3. g \in [1 .. 0 -> Nat]
        BY <2>1
    <2> HIDE DEF g
    <2>4. Has(0)
        BY <2>2, <2>3
    <2> HIDE DEF Has
    <2>5. 0 \notin S
        BY <2>4
    <2> QED
        BY <1>1, <2>5
<1>3. k - 1 \in Nat /\ k - 1 \notin S /\ k \in Nat
    <2> HIDE DEF Has
    <2>1. k \in Nat /\ k - 1 \in Nat /\ ~ (k <= k - 1)
        BY <1>1, <1>2
    <2> QED
        BY <1>1, <2>1
<1>4. PICK g \in [1 .. (k - 1) -> Nat] :
          \A n \in 1 .. (k - 1) : g[n] = IF n = 1 THEN init ELSE F[g[n - 1]]
    BY <1>3
<1> DEFINE last == IF k = 1 THEN init ELSE F[g[k - 1]]
           h == [n \in 1 .. k |-> IF n = k THEN last ELSE g[n]]
<1>5. last \in Nat
    BY <1>2, <1>3, <1>4
<1>6. \A n \in 1 .. k : n = k \/ n \in 1 .. (k - 1)
    BY <1>3
<1>7. h \in [1 .. k -> Nat]
    BY <1>4, <1>5, <1>6
<1>8. ASSUME NEW n \in 1 .. k
      PROVE  h[n] = IF n = 1 THEN init ELSE F[h[n - 1]]
    <2>1. n # 1 => n - 1 \in 1 .. (k - 1) /\ n - 1 \in 1 .. k /\ n - 1 # k
        BY <1>3
    <2>2. n # 1 => h[n - 1] = g[n - 1]
        BY <2>1
    <2>3. CASE n = k
        BY <2>2, <2>3
    <2>4. CASE n # k
        <3>1. h[n] = g[n] /\ n \in 1 .. (k - 1)
            BY <1>6, <2>4
        <3> QED
            BY <1>4, <2>2, <3>1
    <2> QED
        BY <2>3, <2>4
<1> HIDE DEF h
<1>9. Has(k)
    BY <1>7, <1>8
<1> QED
    BY <1>1, <1>9

LEMMA PlacesNat == \A n \in Supps : n \in Nat /\ n # 0
BY SupplementalsAssumption DEF Supps

\* One at a time, at most one is linked to each.
LEMMA LinkedIs ==
    ASSUME NEW r, OneAtATime(r), NEW p, NEW t \in Linked(r, p)
    PROVE  Linked(r, p) = {t} /\ Oldest(Linked(r, p)) = t
<1>1. t \in Of(r) /\ supps[t].link = p /\ t \in Nat
    BY SupplementalsAssumption DEF Linked, Of, Supps
<1>2. \A q \in Linked(r, p) : q \in Of(r) /\ supps[q].link = p
    BY DEF Linked
<1>3. \A q \in Linked(r, p) : q = t
    BY <1>1, <1>2 DEF OneAtATime
<1>4. Linked(r, p) = {t}
    BY <1>3
<1> QED
    BY <1>1, <1>4 DEF Oldest

\* The list goes through them in the order of their keys.
ByKey(r, list) ==
    /\ \A n, m \in Supps : n < m /\ list[m] \in Of(r) => list[n] < list[m]
    /\ \A t \in Of(r) : \E n \in Supps : list[n] = t
LEMMA OrderedByKey ==
    ASSUME History, NEW r, OneAtATime(r)
    PROVE  ByKey(r, Ordered(r))
<1> DEFINE initial == Linked(r, 0)
           plain == [n \in Supps |-> IF n \in Of(r) THEN n ELSE 0]
           After(b) == IF b = 0 THEN {} ELSE Linked(r, b)
           Step(b) == IF After(b) = {} THEN 0 ELSE Oldest(After(b))
           chain == CHOOSE c : c = [n \in Supps |->
                        IF n = 1 THEN Oldest(initial) ELSE Step(c[n - 1])]
<1>1. Ordered(r) = IF Cardinality(initial) = 1 THEN chain ELSE plain
    BY Zenon DEF Ordered
<1>2. \A t \in Of(r) : t \in Supps /\ t \in Nat /\ t # 0 /\ t <= MaxSupplementals /\ Supps = 1 .. MaxSupplementals
    BY SupplementalsAssumption DEF Of, Supps
<1>3. ByKey(r, plain)
    <2>1. \A n \in Supps : n \in Nat /\ n # 0
        BY SupplementalsAssumption DEF Supps
    <2> QED
        BY <1>2, <2>1 DEF ByKey
<1>4. CASE Of(r) = {}
    BY <1>4 DEF ByKey
<1>5. CASE Of(r) # {}
    <2>1. PICK i \in Of(r) : \A t \in Of(r) : i <= t
        <3>1. Of(r) \in SUBSET Nat
            BY <1>2
        <3> QED
            BY <1>5, <3>1, LeastNumber
    <2>2. supps[i].link \in Of(r) \union {0} /\ supps[i].link < i
        BY LinkedInOrder
    <2>3. supps[i].link = 0
        BY <1>2, <2>1, <2>2
    <2>4. i \in initial
        BY <2>3 DEF Linked
    <2>5. Oldest(initial) = i
        BY <2>4, LinkedIs
    <2> DEFINE F == [b \in Nat |-> Step(b)]
    <2>6. \A b : After(b) # {} => Step(b) \in After(b) /\ Step(b) \in Of(r)
        <3> SUFFICES ASSUME NEW b, NEW t \in After(b)
                     PROVE  Step(b) \in After(b) /\ Step(b) \in Of(r)
            OBVIOUS
        <3>1. b # 0 /\ t \in Linked(r, b)
            OBVIOUS
        <3>2. Oldest(Linked(r, b)) = t
            BY <3>1, LinkedIs
        <3> QED
            BY <3>1, <3>2 DEF Linked
    <2> HIDE DEF After, Step
    <2>7. \A b : Step(b) \in Nat
        BY <1>2, <2>6 DEF Step
    <2>8. \E g \in [Supps -> Nat] : \A n \in Supps : g[n] = IF n = 1 THEN i ELSE F[g[n - 1]]
        <3>1. F \in [Nat -> Nat]
            BY <2>7
        <3> HIDE DEF F
        <3> QED
            BY <1>2, <3>1, <2>1, SequenceExists, SupplementalsAssumption DEF Supps
    <2>9. PICK g \in [Supps -> Nat] : \A n \in Supps : g[n] = IF n = 1 THEN i ELSE F[g[n - 1]]
        BY <2>8
    <2>10. \A n \in Supps : n # 1 => n - 1 \in Supps /\ n \in Nat /\ n - 1 < n
        BY SupplementalsAssumption DEF Supps
    <2>11. \A n \in Supps : g[n] = IF n = 1 THEN Oldest(initial) ELSE Step(g[n - 1])
        BY <2>5, <2>9, <2>10
    <2>12. g = [n \in Supps |-> IF n = 1 THEN Oldest(initial) ELSE Step(g[n - 1])]
        BY <2>11
    <2>13. chain = [n \in Supps |-> IF n = 1 THEN Oldest(initial) ELSE Step(chain[n - 1])]
        BY <2>12
    <2>14. PICK c : c = chain
        OBVIOUS
    <2>15. \A n \in Supps : c[n] = IF n = 1 THEN i ELSE Step(c[n - 1])
        BY <2>5, <2>13, <2>14
    <2> HIDE DEF chain
    <2>16. \A n \in Supps : c[n] \in Of(r) \union {0} /\ c[n] \in Nat
        <3>1. \A b : Step(b) \in Of(r) \union {0}
            BY <2>6 DEF Step
        <3> QED
            BY <1>2, <2>1, <2>15, <3>1
    <2>17. ASSUME NEW m \in Supps, m # 1, c[m] \in Of(r)
           PROVE  c[m - 1] \in Of(r) /\ c[m - 1] < c[m]
        <3>1. m - 1 \in Supps /\ c[m] = Step(c[m - 1]) /\ c[m] # 0
            BY <1>2, <2>10, <2>15, <2>17
        <3>2. PICK b : b = c[m - 1]
            OBVIOUS
        <3>3. Step(b) \in After(b)
            BY <2>6, <3>1, <3>2 DEF Step
        <3>4. b # 0 /\ c[m] \in Linked(r, b)
            BY <3>1, <3>2, <3>3 DEF After
        <3>5. supps[c[m]].link = b
            BY <3>4 DEF Linked
        <3>6. b \in Of(r) /\ b < c[m]
            BY <2>17, <3>4, <3>5, LinkedInOrder
        <3> QED
            BY <3>2, <3>6
    <2>18. ASSUME NEW n \in Supps, NEW m \in Supps, n < m, c[m] \in Of(r), ~(c[n] < c[m])
           PROVE  FALSE
        <3> DEFINE Wrong(k) == c[k] \in Of(r) /\ \E q \in Supps : q < k /\ ~(c[q] < c[k])
                   S == {k \in Supps : Wrong(k)}
        <3>1. m \in S /\ S \in SUBSET Nat
            BY <2>18, PlacesNat
        <3>2. PICK k \in S : \A q \in S : k <= q
            BY <3>1, LeastNumber
        <3>3. PICK q \in Supps : q < k /\ ~(c[q] < c[k])
            BY <3>2
        <3>4. k \in Supps /\ k \in Nat /\ q \in Nat /\ q # 0 /\ k # 1 /\ c[k] \in Of(r)
            BY <3>2, <3>3, PlacesNat
        <3>5. k - 1 \in Supps /\ k - 1 < k /\ c[k - 1] \in Of(r) /\ c[k - 1] < c[k]
            BY <2>10, <2>17, <3>4
        <3>6. k - 1 \notin S
            BY <3>2, <3>4, <3>5
        <3>7. q < k - 1 => c[q] < c[k - 1]
            BY <3>5, <3>6
        <3>8. c[q] \in Nat /\ c[k] \in Nat /\ c[k - 1] \in Nat
            BY <2>16, <3>4, <3>5
        <3>9. q = k - 1
            BY <3>3, <3>4, <3>5, <3>7, <3>8
        <3> QED
            BY <3>3, <3>5, <3>9
    <2>19. ASSUME NEW t \in Of(r)
           PROVE  \E n \in Supps : n <= t /\ c[n] = t
        <3> DEFINE Reached(k) == \E n \in Supps : n <= k /\ c[n] = k
                   S == {k \in Of(r) : ~Reached(k)}
        <3> SUFFICES ASSUME S # {} PROVE FALSE
            OBVIOUS
        <3>1. S \in SUBSET Nat
            BY <1>2
        <3>2. PICK k \in S : \A q \in S : k <= q
            BY <3>1, LeastNumber
        <3>3. k \in Of(r) /\ k \in Nat /\ k # 0 /\ k <= MaxSupplementals
            BY <1>2, <3>2
        <3>4. supps[k].link \in Of(r) \union {0} /\ supps[k].link < k
            BY <3>3, LinkedInOrder
        <3>5. PICK p : p = supps[k].link
            OBVIOUS
        <3>6. CASE p = 0
            <4>1. k \in initial
                BY <3>3, <3>5, <3>6 DEF Linked
            <4>2. k = i
                BY <2>5, <4>1, LinkedIs
            <4>3. 1 \in Supps /\ 1 <= k
                BY <3>3, SupplementalsAssumption DEF Supps
            <4>4. c[1] = i
                BY <2>15, <4>3
            <4> QED
                BY <3>2, <4>2, <4>3, <4>4
        <3>7. CASE p \in Of(r)
            <4>1. p < k /\ p \in Nat /\ p # 0
                BY <1>2, <3>4, <3>5, <3>7
            <4>2. p \notin S
                BY <3>2, <3>3, <4>1
            <4>3. PICK n \in Supps : n <= p /\ c[n] = p
                BY <3>7, <4>2
            <4>4. n \in Nat /\ n # 0
                BY PlacesNat
            <4>5. n + 1 <= k /\ n + 1 \in Supps /\ n + 1 # 1 /\ (n + 1) - 1 = n
                BY <3>3, <4>1, <4>3, <4>4, SupplementalsAssumption DEF Supps
            <4>6. c[n + 1] = Step(p)
                BY <2>15, <4>3, <4>5
            <4>7. k \in Linked(r, p)
                BY <3>3, <3>5 DEF Linked
            <4>8. Step(p) = k
                BY <4>1, <4>7, LinkedIs DEF Step, After
            <4> QED
                BY <3>2, <4>5, <4>6, <4>8
        <3> QED
            BY <3>4, <3>5, <3>6, <3>7
    <2>20. ByKey(r, c)
        BY <2>18, <2>19 DEF ByKey
    <2> QED
        BY <1>1, <1>3, <2>14, <2>20
<1> QED
    BY <1>4, <1>5

\* The latest assessed one is the one with the last key.
LEMMA LatestAssessedIs ==
    ASSUME History, NEW r, OneAtATime(r), NEW s \in Of(r), supps[s].status = "ASSESSED",
           \A t \in Of(r) : supps[t].status = "ASSESSED" => t <= s
    PROVE  LatestAssessed(r) = s
<1> DEFINE list == Ordered(r)
           assessed == {n \in Supps : list[n] \in Of(r) /\ supps[list[n]].status = "ASSESSED"}
<1>1. ByKey(r, list)
    BY OrderedByKey
<1>2. LatestAssessed(r) = IF assessed = {} THEN 0 ELSE list[Newest(assessed)]
    BY DEF LatestAssessed
<1> HIDE DEF list
<1>3. PICK k \in Supps : list[k] = s
    BY <1>1 DEF ByKey
<1>4. k \in assessed
    BY <1>3
<1>5. \A t \in Of(r) : t \in Nat
    BY PlacesNat DEF Of
<1>6. ASSUME NEW n \in assessed
      PROVE  n <= k
    <2>1. n \in Nat /\ k \in Nat /\ n \in Supps
        BY PlacesNat
    <2>2. list[n] \in Of(r) /\ list[n] <= s /\ list[n] \in Nat /\ s \in Nat
        BY <1>5, <1>6
    <2>3. ~ (s < list[n])
        BY <2>2
    <2>4. ~ (k < n)
        BY <1>1, <1>3, <2>1, <2>2, <2>3 DEF ByKey
    <2> QED
        BY <2>1, <2>4
<1>7. \A n \in assessed : n \in Nat
    BY PlacesNat
<1> HIDE DEF assessed
<1>8. Newest(assessed) = k
    BY <1>4, <1>6, <1>7 DEF Newest
<1> QED
    BY <1>2, <1>3, <1>4, <1>8

-----------------------------------------------------------------------------
\* Where links lead, once a reassessment is issued

\* What is linked to another one than s, which is issued at a, was there before, or
\* what it is linked to is written after.
LinkAge(r) ==
    \A y, p, s \in Supps : \A a \in EntriesOf(s) :
        /\ supps[y].report = r /\ supps[y].link = p /\ s \in Of(r)
        /\ log[a].status = "ASSESSED" /\ p # s /\ y # s
        => (\E m \in EntriesOf(p) : a < m) \/ ToldBefore(y, a)

\* The first entry of one of the supplier is the supplier's.
FirstOwn ==
    \A s \in Supps : Made(s) /\ ~supps[s].gov => \E i \in EntriesOf(s) : log[i].gov = FALSE

LEMMA LinkAgeKept ==
    ASSUME Shape, Kept, History, NEW r \in Reports, NEW gov \in BOOLEAN, NEW w \in Supps, Acts(w, r, gov),
           LinkAge(r)
    PROVE  LinkAge(r)'
<1>1. Effect(w, r, gov)
    BY ActsOn
<1> SUFFICES ASSUME NEW y \in Supps, NEW p \in Supps, NEW s \in Supps, NEW a \in EntriesOf(s)',
                    supps'[y].report = r, supps'[y].link = p, s \in Of(r)',
                    log'[a].status = "ASSESSED", p # s, y # s
             PROVE  (\E m \in EntriesOf(p)' : a < m) \/ ToldBefore(y, a)'
    BY DEF LinkAge
<1>2. CASE Made(y) /\ a \in EntriesOf(s)
    <2>1. log[a].status = "ASSESSED" /\ supps[y].report = r /\ supps[y].link = p
        BY <1>1, <1>2, EntriesStay DEF Effect, Same
    <2>2. s \in Of(r)
        BY <1>1, <1>2, LoggedAreMade DEF Effect, EntriesOf
    <2>3. (\E m \in EntriesOf(p) : a < m) \/ ToldBefore(y, a)
        BY <1>2, <2>1, <2>2 DEF LinkAge
    <2>4. (\A m \in EntriesOf(p) : m \in EntriesOf(p)') /\ (\A m \in EntriesOf(y) : m \in EntriesOf(y)')
        BY EntriesStay
    <2> QED
        BY <2>3, <2>4 DEF ToldBefore
<1>3. CASE ~Made(y) /\ a \in EntriesOf(s)
    <2>1. y = w
        <3>1. r # 0
            BY ReportsAssumption
        <3> QED
            BY <1>1, <1>3, <3>1 DEF Effect, History
    <2>2. p = LatestFor(r, gov)
        BY <1>3, <2>1, OfIsMade DEF Acts, AddsOne, Adds, SavesOne, Saves, DropsOne, Drops
    <2>3. s \in Of(r) /\ log[a].status = "ASSESSED"
        <3>1. Made(s)
            BY <1>3, LoggedAreMade DEF EntriesOf
        <3>2. s \in Of(r)
            BY <1>1, <3>1 DEF Effect
        <3> QED
            BY <1>3, <3>2, EntriesStay
    <2>4. a \in Nat /\ a \in Left(r, gov) /\ log[a].supp = s
        BY <1>3, <2>3, IssuedIsLeft
    <2>5. PICK n \in Left(r, gov) : log[n].supp = p /\ \A k \in Left(r, gov) : k <= n
        BY <2>2, LatestPlace, PlacesNat
    <2>6. n \in DOMAIN log /\ n \in Nat
        BY PlacesAre DEF Left, Seen
    <2>7. a <= n /\ a # n
        BY <2>4, <2>5
    <2>8. n \in EntriesOf(p) /\ a < n
        BY <2>4, <2>5, <2>6, <2>7 DEF EntriesOf
    <2> QED
        BY <2>8, EntriesStay
<1>4. CASE a \notin EntriesOf(s)
    <2>1. a \notin DOMAIN log /\ s = w /\ Fresh(a, w, gov)
        BY <1>4, EntriesStay
    <2>2. Made(y)
        <3>1. r # 0
            BY ReportsAssumption
        <3> QED
            BY <1>1, <2>1, <3>1 DEF Effect, History
    <2>3. PICK m \in DOMAIN log : NewestEntry(y, m)
        BY <2>2 DEF Kept, StatusTold
    <2>4. m \in EntriesOf(y) /\ m < a
        BY <2>1, <2>3 DEF NewestEntry, Fresh
    <2> QED
        BY <2>4, EntriesStay DEF ToldBefore
<1> QED
    BY <1>2, <1>3, <1>4

LEMMA FirstOwnKept ==
    ASSUME Shape, Kept, FirstOwn, NEW r \in Reports, NEW gov \in BOOLEAN, NEW w \in Supps, Acts(w, r, gov)
    PROVE  FirstOwn'
<1>1. Effect(w, r, gov)
    BY ActsOn
<1> SUFFICES ASSUME NEW s \in Supps, Made(s)', ~supps'[s].gov
             PROVE  \E i \in EntriesOf(s)' : log'[i].gov = FALSE
    BY DEF FirstOwn
<1>2. CASE Made(s)
    <2>1. ~supps[s].gov
        BY <1>1, <1>2 DEF Effect, Same
    <2>2. PICK i \in EntriesOf(s) : log[i].gov = FALSE
        BY <1>2, <2>1 DEF FirstOwn
    <2> QED
        BY <2>2, EntriesStay
<1>3. CASE ~Made(s)
    <2>1. s = w
        BY <1>1, <1>3 DEF Effect, Made
    <2>2. PICK status \in SentBy(gov) : Adds(w, r, gov, status)
        BY <1>3, <2>1, OfIsMade DEF Acts, AddsOne, SavesOne, Saves, DropsOne, Drops
    <2>3. log' = Append(log, Entry(w, status, gov)) /\ supps'[w].gov = gov
        BY <2>2 DEF Adds
    <2>4. Entry(w, status, gov) \in Entries /\ Entry(w, status, gov).supp = w /\ Entry(w, status, gov).gov = gov
        BY SentByIs, EntryIs
    <2>5. PICK i \in DOMAIN log' : log'[i] = Entry(w, status, gov)
        BY <2>3, <2>4, Appended, LoggedAreMade
    <2>6. gov = FALSE
        BY <2>1, <2>3
    <2> QED
        BY <2>1, <2>4, <2>5, <2>6 DEF EntriesOf
<1> QED
    BY <1>2, <1>3

-----------------------------------------------------------------------------
\* What is left of an issued reassessment that was set back

\* It is not a link of which the supplemental reports since s are made.
CutOff(r, x, s) ==
    /\ x \in Supps /\ Made(x)
    /\ x \in Of(r) => supps[x].gov /\ supps[x].status # "ASSESSED" /\ Frozen(x, s)

ScarOver(r, s) == \E i, j : Hidden(r, i, j) /\ s < log[j].supp
ScarOpen(r, s) ==
    \E u \in Of(r) : u < s /\ supps[u].gov /\ supps[u].status \in {"RETURNED", "RECOMMENDED"}
ScarSent(r, s) ==
    \E u \in Of(r) : /\ u < s /\ ~supps[u].gov
                     /\ Linked(r, u) = {} \/ \E t \in Linked(r, u) : ~supps[t].gov /\ Frozen(t, s)
ScarCut(r, s) ==
    \E T \in SUBSET Of(r) : s \in T /\ \A y \in T : supps[y].link \in T \/ CutOff(r, supps[y].link, s)
Scar(r, s) == ScarOver(r, s) \/ ScarOpen(r, s) \/ ScarSent(r, s) \/ ScarCut(r, s)
Still(r) ==
    \A s \in Of(r) : (\E a \in EntriesOf(s) : log[a].status = "ASSESSED") /\ supps[s].status # "ASSESSED"
                         => Scar(r, s)

\* It does not go with supplemental reports made one at a time.
LEMMA ScarIsNotAlone ==
    ASSUME Shape, History, NEW r, OneAtATime(r), NEW s \in Of(r), supps[s].gov, supps[s].status # "ASSESSED"
    PROVE  ~Scar(r, s)
<1>1. \A u \in Of(r) : u \in Supps /\ u \in Nat /\ u # 0 /\ supps[u].gov \in BOOLEAN
    BY OfIsMade, PlacesNat DEF Shape, SuppsShape, IsSupp
<1>2. ASSUME NEW u \in Of(r), NEW t \in Of(r), u < t, supps[u].gov, supps[u].status # "ASSESSED"
      PROVE  FALSE
    <2>1. PICK q \in Linked(r, u) : TRUE
        BY <1>2, FollowedUp
    <2>2. q \in Of(r) /\ supps[q].link = u
        BY DEF Linked
    <2> QED
        BY <1>2, <2>2 DEF OneAtATime
<1>3. ~ScarOver(r, s)
    <2> SUFFICES ASSUME NEW i, NEW j, Hidden(r, i, j), s < log[j].supp PROVE FALSE
        BY DEF ScarOver
    <2>1. log[j].supp \in Of(r)
        BY DEF Hidden, Seen
    <2> QED
        BY <1>2, <2>1
<1>4. ~ScarOpen(r, s)
    BY <1>2 DEF ScarOpen
<1>5. ~ScarSent(r, s)
    <2> SUFFICES ASSUME NEW u \in Of(r), u < s, ~supps[u].gov,
                        Linked(r, u) = {} \/ \E t \in Linked(r, u) : ~supps[t].gov
                 PROVE  FALSE
        BY DEF ScarSent
    <2>1. PICK q \in Linked(r, u) : TRUE
        BY FollowedUp
    <2>2. PICK t \in Linked(r, u) : ~supps[t].gov
        BY <2>1
    <2>3. t \in Of(r) /\ supps[t].link = u
        BY DEF Linked
    <2> QED
        BY <2>2, <2>3 DEF OneAtATime
<1>6. ~ScarCut(r, s)
    <2> SUFFICES ASSUME NEW T \in SUBSET Of(r), s \in T,
                        \A y \in T : supps[y].link \in T \/ CutOff(r, supps[y].link, s)
                 PROVE  FALSE
        BY DEF ScarCut
    <2>1. PICK y \in T : \A q \in T : y <= q
        <3>1. T \in SUBSET Nat
            BY <1>1
        <3> QED
            BY <3>1, LeastNumber
    <2>2. PICK x : x = supps[y].link
        OBVIOUS
    <2>3. x \in Of(r) \union {0} /\ x < y
        BY <2>2, LinkedInOrder
    <2>4. x \notin T
        BY <1>1, <2>1, <2>3
    <2>5. CutOff(r, x, s)
        BY <2>2, <2>4
    <2>6. x \in Of(r)
        BY <2>3, <2>5, PlacesNat DEF CutOff
    <2> QED
        BY <1>2, <2>3, <2>5, <2>6 DEF CutOff
<1> QED
    BY <1>3, <1>4, <1>5, <1>6 DEF Scar

\* The one issued last is the latest assessed one.
LEMMA LastIssued ==
    ASSUME Shape, Orderly, History, NEW r \in Reports, Still(r), OneAtATime(r),
           NEW e \in DOMAIN log, log[e].supp \in Of(r), log[e].status = "ASSESSED",
           \A i \in DOMAIN log : log[i].supp \in Of(r) /\ log[i].status = "ASSESSED" => i <= e
    PROVE  LatestAssessed(r) = log[e].supp
<1>1. PICK s \in Of(r) : s = log[e].supp
    OBVIOUS
<1>2. e \in EntriesOf(s) /\ s \in Supps /\ s \in Nat /\ supps[s].report = r /\ e \in Nat
    BY <1>1, OfIsMade, PlacesNat, PlacesAre DEF EntriesOf
<1>3. supps[s].gov
    BY <1>1 DEF History
<1>4. supps[s].status = "ASSESSED"
    BY <1>2, <1>3, ScarIsNotAlone DEF Still
<1>5. ASSUME NEW t \in Of(r), supps[t].status = "ASSESSED", s < t
      PROVE  FALSE
    <2>1. PICK f \in DOMAIN log : log[f] = Entry(t, "ASSESSED", TRUE)
        BY <1>5, OfIsMade DEF History
    <2>2. log[f].supp = t /\ log[f].status = "ASSESSED"
        BY <2>1 DEF Entry
    <2>3. f \in Nat /\ f <= e /\ f # e
        BY <1>1, <1>2, <1>5, <2>2, PlacesAre
    <2>4. PICK i \in EntriesOf(s) : i < f
        BY <1>2, <1>5, <2>2 DEF Orderly, Kept, InOrder
    <2>5. f \in Seen(r, TRUE)
        BY <2>2 DEF Seen
    <2>6. Settled(r) /\ f < e
        BY <1>2, <2>3 DEF Orderly, Settles
    <2>7. log[f].supp = s
        BY <1>2, <2>2, <2>4, <2>5, <2>6 DEF Settled
    <2> QED
        BY <1>2, <1>5, <2>2, <2>7
<1>6. \A t \in Of(r) : supps[t].status = "ASSESSED" => t <= s
    <2>1. \A t \in Of(r) : t \in Nat
        BY PlacesNat, OfIsMade
    <2> QED
        BY <1>2, <1>5, <2>1
<1> QED
    BY <1>1, <1>4, <1>6, LatestAssessedIs

-----------------------------------------------------------------------------
\* What is written since a reassessment was last saved as a draft

\* Those the government is shown, all of it since the entry e.
Since(r, e) ==
    {y \in Of(r) : (\A m \in EntriesOf(y) : e < m) /\ \E k \in EntriesOf(y) : k \in Seen(r, TRUE)}
DeadEnd(r, x, e) ==
    /\ x \in Supps /\ Made(x)
    /\ x \in Of(r) => supps[x].gov /\ supps[x].status # "ASSESSED" /\ ToldBefore(x, e)
\* One was issued beside a submission that nothing is linked to.
Lost(r, e) ==
    \E s \in Of(r), p \in Of(r) : \E n \in EntriesOf(s) :
        /\ n < e /\ log[n].status = "ASSESSED"
        /\ ~supps[p].gov /\ Linked(r, p) = {} /\ ToldBefore(p, n)
LeadsOn(r, x, u, e) == x \in Since(r, e) \/ x = u \/ DeadEnd(r, x, e) \/ Lost(r, e)
Told(r, u, e) ==
    /\ \A k \in Seen(r, TRUE) : e < k => log[k].supp \in Since(r, e)
    /\ \A y \in Since(r, e) : LeadsOn(r, supps[y].link, u, e)
IsDraft(u) == supps[u].gov /\ supps[u].status = "DRAFT"
Drafts(r) == \A u \in Of(r) : IsDraft(u) => \A e : NewestEntry(u, e) => Told(r, u, e)

LEMMA DraftPlace ==
    ASSUME Shape, Kept, NEW r, NEW u \in Of(r), IsDraft(u), NEW e, NewestEntry(u, e)
    PROVE  /\ e \in DOMAIN log /\ e \in Nat /\ log[e].supp = u /\ log[e].status = "DRAFT"
           /\ e \in Seen(r, TRUE) /\ e \in Left(r, TRUE)
<1>1. PICK i \in DOMAIN log : /\ log[i].supp = u /\ \A m \in EntriesOf(u) : m <= i
                              /\ log[i].status = supps[u].status
    BY OfTold
<1>2. e \in DOMAIN log /\ log[e].supp = u /\ e \in Nat /\ i \in Nat /\ e <= i /\ i <= e
    BY <1>1, PlacesAre DEF NewestEntry, EntriesOf
<1>3. log[e].status = "DRAFT"
    <2>1. e = i
        BY <1>2
    <2> QED
        BY <1>1, <2>1 DEF IsDraft
<1>4. log[e].gov
    BY <1>2 DEF Kept, EntryKinds, IsDraft
<1>5. log[e].gov = TRUE
    BY <1>2, <1>4, PlacesAre DEF Entries
<1>6. e \in Seen(r, TRUE)
    BY <1>2, <1>5 DEF Seen
<1>7. e \notin PassedOver(Seen(r, TRUE))
    BY <1>3, OverIs DEF Hidden
<1> QED
    BY <1>2, <1>3, <1>6, <1>7 DEF Left

\* The latest for the government is the draft, or was made since.
LEMMA LatestIsSince ==
    ASSUME Shape, Kept, NEW r, NEW u \in Of(r), IsDraft(u), NEW e, NewestEntry(u, e), Told(r, u, e)
    PROVE  LatestFor(r, TRUE) \in Since(r, e) \union {u}
<1>1. /\ e \in DOMAIN log /\ e \in Nat /\ log[e].supp = u
      /\ e \in Left(r, TRUE)
    BY DraftPlace
<1>2. LatestFor(r, TRUE) # 0
    BY <1>1, LatestPlace
<1>3. PICK n \in Left(r, TRUE) : log[n].supp = LatestFor(r, TRUE) /\ \A m \in Left(r, TRUE) : m <= n
    BY <1>2, LatestPlace
<1>4. n \in Seen(r, TRUE) /\ n \in Nat /\ e <= n
    BY <1>1, <1>3, PlacesAre DEF Left, Seen
<1>5. CASE n = e
    BY <1>1, <1>3, <1>5
<1>6. CASE n # e
    <2>1. e < n
        BY <1>1, <1>4, <1>6
    <2> QED
        BY <1>3, <1>4, <2>1 DEF Told
<1> QED
    BY <1>5, <1>6

\* What the supplier submits as a new one leads on from there.
LEMMA SubmittedLeadsOn ==
    ASSUME Shape, Orderly, History, FirstOwn, NEW r \in Reports, Sends(r, FALSE),
           LatestFor(r, FALSE) = 0 \/ supps[LatestFor(r, FALSE)].gov # FALSE,
           NEW u \in Of(r), IsDraft(u), NEW e, NewestEntry(u, e), Told(r, u, e)
    PROVE  LeadsOn(r, LatestFor(r, FALSE), u, e)
<1>0. Kept
    BY DEF Orderly
<1>1. PICK v \in Of(r) : SupplierOffers(v)
    BY DEF Sends
<1>2. v \in Supps /\ Made(v) /\ supps[v].report = r /\ supps[v].gov \in BOOLEAN
    BY OfIsMade DEF Shape, SuppsShape, IsSupp
<1>3. PICK c \in ActualStatus(v, FALSE) : c \in {"DRAFT", "RETURNED"}
    BY <1>1 DEF SupplierOffers
<1>4. ~supps[v].gov
    <2> SUFFICES ASSUME supps[v].gov PROVE FALSE
        OBVIOUS
    <2>1. supps[v].status = "ASSESSED"
        BY <1>1 DEF SupplierOffers, Listed
    <2>2. ActualStatus(v, FALSE) = {supps[v].status}
        BY DEF ActualStatus
    <2> QED
        BY <1>3, <2>1, <2>2
<1>5. PICK m \in EntriesOf(v) : log[m].gov = FALSE
    BY <1>2, <1>4 DEF FirstOwn
<1>6. m \in DOMAIN log /\ m \in Nat /\ log[m].supp = v /\ m \in Seen(r, FALSE)
    <2>1. m \in DOMAIN log /\ m \in Nat /\ log[m].supp = v
        BY PlacesAre DEF EntriesOf
    <2>2. log[m].status # "RECOMMENDED"
        BY <1>0, <1>4, <2>1 DEF Kept, EntryKinds
    <2> QED
        BY <1>5, <2>1, <2>2 DEF Seen
<1>7. LatestFor(r, FALSE) # 0
    BY <1>6, LatestPlace DEF Left
<1>8. PICK p : p = LatestFor(r, FALSE)
    OBVIOUS
<1>9. PICK n \in Seen(r, FALSE) : log[n].supp = p /\ \A k \in Seen(r, FALSE) : k <= n
    BY <1>7, <1>8, LatestPlace DEF Left
<1>10. /\ n \in DOMAIN log /\ n \in Nat /\ p \in Of(r) /\ p \in Supps /\ Made(p)
       /\ supps[p].gov \in BOOLEAN /\ n \in EntriesOf(p)
    BY <1>9, OfIsMade, PlacesAre DEF Seen, EntriesOf, Shape, SuppsShape, IsSupp
<1>11. supps[p].gov
    BY <1>7, <1>8, <1>10
<1>12. /\ e \in DOMAIN log /\ e \in Nat /\ log[e].supp = u /\ log[e].status = "DRAFT"
    BY <1>0, DraftPlace
<1>13. m < n
    <2>1. m <= n
        BY <1>6, <1>9
    <2>2. m # n
        BY <1>4, <1>6, <1>9, <1>11
    <2> QED
        BY <1>6, <1>10, <2>1, <2>2
<1>14. n \in Seen(r, TRUE)
    <2>1. log[n].gov
        BY <1>0, <1>9, <1>10, <1>11 DEF Kept, EntryKinds
    <2>2. log[n].status = "DRAFT" => log[n].gov = FALSE
        BY <1>9 DEF Seen
    <2>3. log[n].status # "DRAFT"
        BY <2>1, <2>2
    <2> QED
        BY <1>9, <1>10, <2>3 DEF Seen
<1>15. e < n => p \in Since(r, e)
    BY <1>9, <1>14 DEF Told
<1>16. CASE supps[p].status # "ASSESSED"
    <2>1. ToldBefore(p, e) => DeadEnd(r, p, e)
        BY <1>10, <1>11, <1>16 DEF DeadEnd
    <2>2. n < e => ToldBefore(p, e)
        BY <1>10 DEF ToldBefore
    <2>3. n = e => p = u
        BY <1>9, <1>12
    <2>4. n < e \/ n = e \/ e < n
        BY <1>10, <1>12, OneIsLess
    <2> QED
        BY <1>8, <1>15, <2>1, <2>2, <2>3, <2>4 DEF LeadsOn
<1>17. CASE supps[p].status = "ASSESSED"
    <2>1. PICK x \in DOMAIN log : /\ log[x].supp = p /\ \A k \in EntriesOf(p) : k <= x
                                  /\ log[x].status = "ASSESSED"
        BY <1>0, <1>10, <1>17, OfTold
    <2>2. x \in Seen(r, FALSE) /\ x \in Nat
        BY <1>10, <2>1, PlacesAre DEF Seen
    <2>3. x = n
        <3>1. x <= n /\ n <= x
            BY <1>9, <1>10, <2>1, <2>2
        <3> QED
            BY <1>10, <2>2, <3>1
    <2>4. Linked(r, v) = {}
        <3> SUFFICES ASSUME Linked(r, v) # {} PROVE FALSE
            OBVIOUS
        <3>1. PICK t \in Linked(r, v) :
                  c = IF supps[t].gov /\ supps[t].status = "ASSESSED" THEN supps[t].status ELSE supps[p].status
            BY <1>2, <1>3, <1>4, <1>7, <1>8 DEF ActualStatus
        <3> QED
            BY <1>3, <1>17, <3>1
    <2>5. ToldBefore(v, n)
        BY <1>13 DEF ToldBefore
    <2>6. n < e => Lost(r, e)
        BY <1>4, <1>10, <2>1, <2>3, <2>4, <2>5 DEF Lost
    <2>7. n # e
        BY <1>12, <2>1, <2>3
    <2>8. n < e \/ e < n
        BY <1>10, <1>12, <2>7, OneIsLess
    <2> QED
        BY <1>8, <1>15, <2>6, <2>8 DEF LeadsOn
<1> QED
    BY <1>16, <1>17

\* A step leaves the draft u, whose newest entry is e, and all but w as they are.
Leaves(w, r, u, e) ==
    /\ u \in Of(r) /\ IsDraft(u) /\ NewestEntry(u, e) /\ u # w /\ u \in Of(r)'
    /\ \A v \in Supps \ {w} : supps'[v] = supps[v]
    /\ ~SavesOne(w, r, FALSE, "SUBMITTED")

LEMMA DraftIsLeft ==
    ASSUME Shape, Kept, NEW r \in Reports, NEW gov \in BOOLEAN, NEW w \in Supps, Acts(w, r, gov),
           NEW u \in Of(r)', IsDraft(u)', NEW e \in DOMAIN log, NewestEntry(u, e)'
    PROVE  Leaves(w, r, u, e)
<1>1. Effect(w, r, gov)
    BY ActsOn
<1>2. e \in EntriesOf(u)' /\ \A m \in EntriesOf(u)' : m <= e
    BY DEF NewestEntry
<1>3. e \in EntriesOf(u)
    BY <1>2, EntriesStay
<1>4. u \in Supps /\ Made(u)
    BY <1>3, LoggedAreMade DEF EntriesOf
<1>5. u \in Of(r)
    BY <1>1, <1>4 DEF Effect
<1>6. NewestEntry(u, e)
    BY <1>2, <1>3, EntriesStay DEF NewestEntry
<1>7. u # w
    <2> SUFFICES ASSUME u = w PROVE FALSE
        OBVIOUS
    <2>1. CASE \E status \in SentBy(gov) : SavesOne(w, r, gov, status)
        <3>1. PICK status \in SentBy(gov) : log' = Append(log, Entry(w, status, gov))
            BY <2>1 DEF SavesOne, Saves
        <3>2. Entry(w, status, gov) \in Entries /\ Entry(w, status, gov).supp = w
            BY SentByIs, EntryIs
        <3>3. log \in Seq(Entries)
            BY LoggedAreMade
        <3>4. Len(log) + 1 \in EntriesOf(w)'
            BY <3>1, <3>2, <3>3, Appended DEF EntriesOf
        <3>5. e < Len(log) + 1 /\ e \in Nat /\ Len(log) + 1 \in Nat
            BY <3>1, <3>2, <3>3, Appended
        <3> QED
            BY <1>2, <3>4, <3>5
    <2>2. CASE DropsOne(w, r, gov)
        BY <2>2 DEF DropsOne, Drops, IsDraft
    <2>3. CASE \E status \in SentBy(gov) : AddsOne(w, r, gov, status)
        BY <1>4, <2>3 DEF AddsOne, Adds
    <2> QED
        BY <2>1, <2>2, <2>3 DEF Acts
<1>8. supps'[u] = supps[u]
    BY <1>4, <1>7, OthersStand DEF Stands
<1>9. IsDraft(u)
    BY <1>8 DEF IsDraft
<1>10. ~SavesOne(w, r, FALSE, "SUBMITTED")
    <2> SUFFICES ASSUME Saves(w, r, FALSE, "SUBMITTED") PROVE FALSE
        BY DEF SavesOne
    <2>1. supps'[u].status = "DELETED"
        BY <1>5, <1>7, <1>9 DEF Saves, IsDraft
    <2> QED
        BY <2>1 DEF IsDraft
<1>11. \A v \in Supps \ {w} : supps'[v] = supps[v]
    BY <1>10, OthersStand
<1> QED
    BY <1>5, <1>6, <1>7, <1>9, <1>10, <1>11 DEF Leaves

LEMMA SinceStays ==
    ASSUME Shape, NEW r \in Reports, NEW gov \in BOOLEAN, NEW w \in Supps, Acts(w, r, gov),
           NEW e \in DOMAIN log, NEW y \in Since(r, e), y \in Of(r)'
    PROVE  y \in Since(r, e)'
<1>1. y \in Of(r) /\ \A m \in EntriesOf(y) : e < m
    BY DEF Since
<1>2. PICK k \in EntriesOf(y) : k \in Seen(r, TRUE)
    BY DEF Since
<1>3. \A m \in EntriesOf(y)' : e < m
    BY <1>1, EntriesStay DEF Fresh
<1>4. k \in EntriesOf(y)'
    BY EntriesStay
<1>5. log[k].supp = y
    BY DEF EntriesOf
<1>6. k \in Seen(r, TRUE)'
    BY <1>2, <1>5, SeenStill
<1> QED
    BY <1>3, <1>4, <1>6 DEF Since

\* One of the government that was there before is not written.
LEMMA EarlierIsLeft ==
    ASSUME Shape, Kept, NEW r \in Reports, NEW gov \in BOOLEAN, NEW w \in Supps, Acts(w, r, gov),
           NEW u \in Of(r), NEW e \in DOMAIN log, Leaves(w, r, u, e), Told(r, u, e),
           NEW x \in Supps, Made(x), supps[x].gov, ToldBefore(x, e)
    PROVE  x # w /\ supps'[x] = supps[x]
<1>1. x # w
    <2> SUFFICES ASSUME x = w PROVE FALSE
        OBVIOUS
    <2>1. w = LatestFor(r, gov)
        BY WrittenIsLatest
    <2>2. CASE gov = TRUE
        <3>1. w \in Since(r, e)
            BY <2>1, <2>2, LatestIsSince DEF Leaves
        <3>2. e \in Nat /\ \A m \in EntriesOf(w) : e < m /\ m \in Nat
            BY <3>1, PlacesAre DEF Since, EntriesOf
        <3> QED
            BY <3>2 DEF ToldBefore
    <2>3. CASE gov = FALSE
        BY <2>3 DEF Acts, AddsOne, Adds, SavesOne, DropsOne, Drops
    <2> QED
        BY <2>2, <2>3
<1> QED
    BY <1>1 DEF Leaves

LEMMA BeforeStays ==
    ASSUME Shape, NEW r \in Reports, NEW gov \in BOOLEAN, NEW w \in Supps, Acts(w, r, gov),
           NEW x, NEW e, ToldBefore(x, e)
    PROVE  ToldBefore(x, e)'
BY EntriesStay DEF ToldBefore

LEMMA MadeStays ==
    ASSUME Shape, NEW r \in Reports, NEW gov \in BOOLEAN, NEW w \in Supps, Acts(w, r, gov),
           NEW x \in Supps, Made(x)
    PROVE  Made(x)' /\ Same(x) /\ (x \in Of(r)' => x \in Of(r))
BY ActsOn DEF Effect, Made

LEMMA LostStays ==
    ASSUME Shape, Orderly, History, NEW r \in Reports, NEW gov \in BOOLEAN, NEW w \in Supps, Acts(w, r, gov),
           NEW u \in Of(r), NEW e \in DOMAIN log, Leaves(w, r, u, e), Told(r, u, e), Lost(r, e)
    PROVE  Lost(r, e)'
<1>0. PICK s \in Of(r), p \in Of(r) : \E n \in EntriesOf(s) :
          /\ n < e /\ log[n].status = "ASSESSED"
          /\ ~supps[p].gov /\ Linked(r, p) = {} /\ ToldBefore(p, n)
    BY DEF Lost
<1>1. PICK n \in EntriesOf(s) :
          /\ n < e /\ log[n].status = "ASSESSED"
          /\ ~supps[p].gov /\ Linked(r, p) = {} /\ ToldBefore(p, n)
    BY <1>0
<1>2. s \in Supps /\ Made(s) /\ p \in Supps /\ supps[p].report = r /\ supps[s].report = r
    BY OfIsMade
<1>3. supps[s].gov
    BY <1>1 DEF History, EntriesOf
<1>4. supps'[s] = supps[s]
    <2>1. ToldBefore(s, e)
        BY <1>1 DEF ToldBefore
    <2> QED
        BY <1>2, <1>3, <2>1, EarlierIsLeft DEF Orderly
<1>5. p # s
    BY <1>1, <1>3
<1>6. Frozen(p, s)
    BY <1>1 DEF Frozen, IssuedAt
<1>7. Past(p, w, r)
    <2>1. Settled(r)
        BY DEF Orderly, Settles
    <2> QED
        BY <1>2, <1>5, <1>6, <2>1, FrozenStays
<1>8. supps'[p] = supps[p]
    BY <1>2, <1>7 DEF Leaves, Past
<1>9. s \in Of(r)' /\ p \in Of(r)'
    BY <1>4, <1>8 DEF Of
<1>10. Linked(r, p)' = {}
    <2>1. p # LatestFor(r, gov)
        BY <1>7 DEF Past
    <2>2. \A t \in Linked(r, p)' : t \in Linked(r, p)
        BY <2>1, LinksStand
    <2> QED
        BY <1>1, <2>2
<1>11. n \in EntriesOf(s)' /\ log'[n] = log[n]
    BY EntriesStay
<1>12. ToldBefore(p, n)'
    BY <1>1, BeforeStays
<1> QED
    BY <1>1, <1>8, <1>9, <1>10, <1>11, <1>12 DEF Lost

LEMMA LeadsStays ==
    ASSUME Shape, Orderly, History, NEW r \in Reports, NEW gov \in BOOLEAN, NEW w \in Supps, Acts(w, r, gov),
           NEW u \in Of(r), NEW e \in DOMAIN log, Leaves(w, r, u, e), Told(r, u, e),
           NEW x, LeadsOn(r, x, u, e)
    PROVE  LeadsOn(r, x, u, e)'
<1>1. CASE x \in Since(r, e)
    <2>1. x \in Supps /\ Made(x)
        BY <1>1, OfIsMade DEF Since
    <2>2. CASE x \in Of(r)'
        BY <1>1, <2>2, SinceStays DEF LeadsOn
    <2>3. CASE x \notin Of(r)'
        <3>1. DeadEnd(r, x, e)'
            BY <2>1, <2>3, MadeStays DEF DeadEnd
        <3> QED
            BY <3>1 DEF LeadsOn
    <2> QED
        BY <2>2, <2>3
<1>2. CASE x = u
    BY <1>2 DEF LeadsOn
<1>3. CASE DeadEnd(r, x, e)
    <2>1. x \in Supps /\ Made(x)
        BY <1>3 DEF DeadEnd
    <2>2. Made(x)' /\ (x \in Of(r)' => x \in Of(r))
        BY <2>1, MadeStays
    <2>3. ASSUME x \in Of(r)'
          PROVE  supps'[x].gov /\ supps'[x].status # "ASSESSED" /\ ToldBefore(x, e)'
        <3>1. supps[x].gov /\ supps[x].status # "ASSESSED" /\ ToldBefore(x, e)
            BY <1>3, <2>2, <2>3 DEF DeadEnd
        <3>2. supps'[x] = supps[x]
            BY <2>1, <3>1, EarlierIsLeft DEF Orderly
        <3> QED
            BY <3>1, <3>2, BeforeStays
    <2>4. DeadEnd(r, x, e)'
        BY <2>1, <2>2, <2>3 DEF DeadEnd
    <2> QED
        BY <2>4 DEF LeadsOn
<1>4. CASE Lost(r, e)
    BY <1>4, LostStays DEF LeadsOn
<1> QED
    BY <1>1, <1>2, <1>3, <1>4 DEF LeadsOn

\* What the government is shown after e is of those made since.
LEMMA SeenIsSince ==
    ASSUME Shape, Kept, NEW r \in Reports, NEW gov \in BOOLEAN, NEW w \in Supps, Acts(w, r, gov),
           NEW u \in Of(r), NEW e \in DOMAIN log, Leaves(w, r, u, e), Told(r, u, e),
           NEW k \in Seen(r, TRUE)', e < k, NEW y, y = log'[k].supp
    PROVE  y \in Since(r, e)' /\ (Made(y) => y \in Since(r, e))
<1>1. Effect(w, r, gov)
    BY ActsOn
<1>2. y \in Of(r)' /\ k \in EntriesOf(y)'
    BY DEF Seen, EntriesOf
<1>3. CASE y \in Since(r, e)
    BY <1>2, <1>3, SinceStays
<1>4. CASE k \in DOMAIN log /\ k \in Seen(r, TRUE) /\ log'[k] = log[k]
    <2>1. y \in Since(r, e)
        BY <1>4 DEF Told
    <2> QED
        BY <1>3, <2>1
<1>5. CASE k \notin DOMAIN log /\ Fresh(k, w, gov)
    <2>1. y = w
        BY <1>5 DEF Fresh
    <2>2. PICK status \in SentBy(gov) : AddsOne(w, r, gov, status) \/ SavesOne(w, r, gov, status)
        BY <1>1, <1>5 DEF Fresh, Effect
    <2>3. CASE AddsOne(w, r, gov, status)
        <3>1. ~Made(w)
            BY <2>3 DEF AddsOne, Adds
        <3>2. \A m \in EntriesOf(w) : FALSE
            BY <3>1, LoggedAreMade DEF EntriesOf
        <3>3. \A m \in EntriesOf(w)' : e < m
            BY <3>2, EntriesStay DEF Fresh
        <3> QED
            BY <1>2, <2>1, <3>1, <3>3 DEF Since
    <2>4. CASE SavesOne(w, r, gov, status) /\ gov = TRUE
        <3>1. w = LatestFor(r, TRUE)
            BY <2>4 DEF SavesOne, Saves
        <3>2. w \in Since(r, e)
            BY <3>1, LatestIsSince DEF Leaves
        <3> QED
            BY <1>3, <2>1, <3>2
    <2>5. CASE SavesOne(w, r, gov, status) /\ gov = FALSE
        <3>1. status \in {"DRAFT", "SUBMITTED", "DELETED"}
            BY <2>5 DEF SentBy
        <3>2. supps'[w].status = status /\ status # "DELETED"
            BY <2>5 DEF SavesOne, Saves
        <3>3. status # "SUBMITTED"
            BY <2>5 DEF Leaves
        <3>4. log'[k].status = "DRAFT" /\ log'[k].gov = FALSE
            BY <1>5, <2>5, <3>1, <3>2, <3>3 DEF Fresh
        <3>5. log'[k].gov = TRUE
            BY <3>4 DEF Seen
        <3> QED
            BY <3>4, <3>5
    <2> QED
        BY <2>2, <2>3, <2>4, <2>5
<1> QED
    BY <1>4, <1>5, SeenAfter

\* And these are linked to one another, or to what leads on.
LEMMA SinceLeadsOn ==
    ASSUME Shape, Orderly, History, FirstOwn, NEW r \in Reports, NEW gov \in BOOLEAN, NEW w \in Supps,
           Acts(w, r, gov), NEW u \in Of(r), NEW e \in DOMAIN log, Leaves(w, r, u, e), Told(r, u, e),
           NEW y \in Since(r, e)', NEW x, x = supps'[y].link
    PROVE  LeadsOn(r, x, u, e)'
<1>0. Kept
    BY DEF Orderly
<1>1. Effect(w, r, gov)
    BY ActsOn
<1>2. PICK k \in EntriesOf(y)' : k \in Seen(r, TRUE)'
    BY DEF Since
<1>3. y \in Of(r)' /\ e < k /\ y = log'[k].supp
    BY DEF Since, EntriesOf
<1>4. y \in Supps
    BY <1>3 DEF Of
<1>5. CASE LeadsOn(r, x, u, e)
    BY <1>5, LeadsStays
<1>6. CASE Made(y)
    <2>1. y \in Since(r, e)
        BY <1>0, <1>2, <1>3, <1>6, SeenIsSince
    <2>2. supps[y].link = x
        BY <1>1, <1>4, <1>6 DEF Effect, Same
    <2>3. LeadsOn(r, x, u, e)
        BY <2>1, <2>2 DEF Told
    <2> QED
        BY <1>5, <2>3
<1>7. CASE ~Made(y)
    <2>1. y = w
        BY <1>1, <1>3, <1>4, <1>7, OfIsMade DEF Effect
    <2>2. PICK status \in SentBy(gov) : AddsOne(w, r, gov, status)
        BY <1>7, <2>1, OfIsMade DEF Acts, SavesOne, Saves, DropsOne, Drops
    <2>3. x = LatestFor(r, gov) /\ supps'[w].status = status
        BY <2>1, <2>2 DEF AddsOne, Adds
    <2>4. CASE gov = TRUE
        <3>1. x \in Since(r, e) \union {u}
            <4>1. LatestFor(r, TRUE) \in Since(r, e) \union {u}
                BY <1>0, LatestIsSince DEF Leaves
            <4> QED
                BY <2>3, <2>4, <4>1
        <3>2. LeadsOn(r, x, u, e)
            BY <3>1 DEF LeadsOn
        <3> QED
            BY <1>5, <3>2
    <2>5. CASE gov = FALSE
        <3>1. k \notin EntriesOf(w)
            BY <1>7, <2>1, LoggedAreMade DEF EntriesOf
        <3>2. Fresh(k, w, gov)
            BY <2>1, <3>1, EntriesStay
        <3>3. log'[k].status = status /\ log'[k].gov = FALSE
            BY <2>3, <2>5, <3>2 DEF Fresh
        <3>4. status # "DRAFT"
            BY <1>2, <3>3 DEF Seen
        <3>5. Sends(r, FALSE) /\ (LatestFor(r, FALSE) = 0 \/ supps[LatestFor(r, FALSE)].gov # FALSE)
            BY <2>2, <2>5, <3>4 DEF AddsOne
        <3>6. LeadsOn(r, LatestFor(r, FALSE), u, e)
            BY <3>5, SubmittedLeadsOn DEF Leaves
        <3>7. LeadsOn(r, x, u, e)
            BY <2>3, <2>5, <3>6
        <3> QED
            BY <1>5, <3>7
    <2> QED
        BY <2>4, <2>5
<1> QED
    BY <1>6, <1>7

LEMMA DraftsKept ==
    ASSUME Shape, Orderly, History, FirstOwn, NEW r \in Reports, NEW gov \in BOOLEAN, NEW w \in Supps,
           Acts(w, r, gov), Drafts(r)
    PROVE  Drafts(r)'
<1> SUFFICES ASSUME NEW u \in Of(r)', IsDraft(u)', NEW e, NewestEntry(u, e)'
             PROVE  Told(r, u, e)'
    BY DEF Drafts
<1>0. Kept
    BY DEF Orderly
<1>1. CASE e \notin DOMAIN log
    <2>1. e \in EntriesOf(u)'
        BY DEF NewestEntry
    <2>2. Fresh(e, w, gov)
        BY <1>1, <2>1, EntriesStay DEF EntriesOf
    <2>3. \A k \in DOMAIN log' : ~ (e < k)
        BY <2>2 DEF Fresh
    <2>4. \A k \in Seen(r, TRUE)' : ~ (e < k)
        BY <2>3 DEF Seen
    <2>5. \A y \in Since(r, e)' : FALSE
        BY <2>3 DEF Since, EntriesOf
    <2> QED
        BY <2>4, <2>5 DEF Told
<1>2. CASE e \in DOMAIN log
    <2>1. Leaves(w, r, u, e)
        BY <1>0, <1>2, DraftIsLeft
    <2>2. u \in Of(r) /\ Told(r, u, e)
        BY <2>1 DEF Leaves, Drafts
    <2>3. \A k \in Seen(r, TRUE)' : e < k => log'[k].supp \in Since(r, e)'
        BY <1>0, <1>2, <2>1, <2>2, SeenIsSince
    <2>4. \A y \in Since(r, e)' : LeadsOn(r, supps[y].link, u, e)'
        <3> SUFFICES ASSUME NEW y \in Since(r, e)'
                     PROVE  LeadsOn(r, supps[y].link, u, e)'
            OBVIOUS
        <3>1. PICK x : x = supps'[y].link
            OBVIOUS
        <3>2. LeadsOn(r, x, u, e)'
            BY <1>2, <2>1, <2>2, <3>1, SinceLeadsOn
        <3> QED
            BY <3>1, <3>2
    <2> QED
        BY <2>3, <2>4 DEF Told
<1> QED
    BY <1>1, <1>2

-----------------------------------------------------------------------------
\* Why an issued one is set back, and what of that stays

LEMMA EarlierIsFrozen ==
    ASSUME Shape, Kept, NEW r, NEW s \in Of(r), NEW a \in EntriesOf(s), log[a].status = "ASSESSED",
           NEW u \in Supps, u < s
    PROVE  Frozen(u, s) /\ ToldBefore(u, a)
<1>1. a \in DOMAIN log /\ log[a].supp = s
    BY DEF EntriesOf
<1>2. PICK i \in EntriesOf(u) : i < a
    BY <1>1 DEF Kept, InOrder
<1>3. ToldBefore(u, a)
    BY <1>2 DEF ToldBefore
<1> QED
    BY <1>3 DEF Frozen, IssuedAt

LEMMA LessIs == \A a, b, c \in Nat : (a < b => a # b) /\ (a < b /\ b < c => a < c)
OBVIOUS

\* What is passed over and open is of a pair made later.
LEMMA OpenLater ==
    ASSUME Shape, Orderly, History, NEW r \in Reports,
           NEW s \in Of(r), s = LatestFor(r, TRUE), supps[s].gov, NEW u \in Supps, Open(r, u), s < u
    PROVE  ScarOver(r, s)
<1>0. Kept
    BY DEF Orderly
<1>1. /\ u \in Of(r) /\ u \in Nat /\ s \in Nat /\ s \in Supps /\ supps[s].report = r /\ s # 0 /\ u # s
    <2>1. u \in Of(r) /\ s \in Supps /\ supps[s].report = r
        BY OfIsMade DEF Open
    <2>2. u \in Nat /\ s \in Nat /\ s # 0
        BY <2>1, PlacesNat
    <2>3. u # s
        BY <2>2, LessIs, Zenon
    <2> QED
        BY <2>1, <2>2, <2>3
<1>2. PICK m \in DOMAIN log : log[m].supp = u /\ log[m].status = supps[u].status
    BY <1>0, <1>1, OfTold
<1>3. m \in Seen(r, TRUE)
    <2>1. log[m].status = "DRAFT" => log[m].gov = TRUE
        <3>1. supps[u].gov \in BOOLEAN
            BY DEF Shape, SuppsShape, IsSupp
        <3> QED
            BY <1>0, <1>1, <1>2, <3>1 DEF Kept, EntryKinds, Open
    <2> QED
        BY <1>1, <1>2, <2>1 DEF Seen
<1>4. PICK n \in Left(r, TRUE) : log[n].supp = s /\ \A k \in Left(r, TRUE) : k <= n
    BY <1>1, LatestPlace
<1>5. n \in DOMAIN log /\ n \in Nat /\ m \in Nat /\ n \in EntriesOf(s)
    BY <1>4, PlacesAre DEF Left, Seen, EntriesOf
<1>6. PICK i \in EntriesOf(s) : i < m
    BY <1>0, <1>1, <1>2 DEF Kept, InOrder
<1>7. m \in PassedOver(Seen(r, TRUE))
    <2> SUFFICES ASSUME m \notin PassedOver(Seen(r, TRUE)) PROVE FALSE
        OBVIOUS
    <2>1. m \in Left(r, TRUE)
        BY <1>3 DEF Left
    <2>2. m <= n /\ m # n
        BY <1>1, <1>2, <1>4, <2>1
    <2>3. m < n
        BY <1>5, <2>2
    <2>4. Settled(r)
        BY DEF Orderly, Settles
    <2>5. log[m].supp # s
        BY <1>1, <1>2
    <2> QED
        BY <1>1, <1>3, <1>5, <1>6, <2>3, <2>4, <2>5 DEF Settled
<1>8. PICK j : Hidden(r, m, j) \/ Hidden(r, j, m)
    BY <1>7, OverIs
<1>9. CASE Hidden(r, j, m)
    BY <1>2, <1>9 DEF ScarOver
<1>10. CASE Hidden(r, m, j)
    <2>1. PICK x : x = log[j].supp
        OBVIOUS
    <2>2. supps[x].link = u
        BY <1>2, <1>10, <2>1 DEF Orderly, Settles, Paired
    <2>3. x \in Supps /\ x \in Nat
        <3>1. x \in Of(r)
            BY <1>10, <2>1 DEF Hidden, Seen
        <3> QED
            BY <3>1, OfIsMade, PlacesNat
    <2>4. u < x
        BY <1>1, <2>2, <2>3, PlacesNat DEF History
    <2>5. s < x
        <3>1. s \in Nat /\ u \in Nat
            BY <1>1
        <3> QED
            BY <2>3, <2>4, <3>1, LessIs, Zenon
    <2> QED
        BY <1>10, <2>1, <2>5 DEF ScarOver
<1> QED
    BY <1>8, <1>9, <1>10

\* One issued beside a submission that nothing is linked to was made later.
LEMMA LostIsSent ==
    ASSUME Shape, Orderly, History, NEW r \in Reports, NEW s \in Of(r), supps[s].gov,
           NEW a \in EntriesOf(s), log[a].status = "ASSESSED", NEW e \in Nat, e < a,
           s \in Since(r, e), Lost(r, e)
    PROVE  ScarSent(r, s)
<1>0. Kept
    BY DEF Orderly
<1>1. PICK p \in Of(r) : ~supps[p].gov /\ Linked(r, p) = {} /\ \E i \in Supps : \E n \in EntriesOf(i) : n < e /\ ToldBefore(p, n)
    BY OfIsMade DEF Lost
<1>2. PICK m \in EntriesOf(p) : m < e
    <2>1. PICK i \in Supps : \E n \in EntriesOf(i) : n < e /\ ToldBefore(p, n)
        BY <1>1
    <2>2. PICK n \in EntriesOf(i) : n < e /\ ToldBefore(p, n)
        BY <2>1
    <2>3. PICK m \in EntriesOf(p) : m < n
        BY <2>2 DEF ToldBefore
    <2>4. m \in Nat /\ n \in Nat
        BY PlacesAre DEF EntriesOf
    <2> QED
        BY <2>2, <2>3, <2>4, LessIs, Zenon
<1>3. m \in DOMAIN log /\ log[m].supp = p /\ m \in Nat
    BY PlacesAre DEF EntriesOf
<1>4. \A i \in EntriesOf(s) : ~ (i < m)
    <2> SUFFICES ASSUME NEW i \in EntriesOf(s), i < m PROVE FALSE
        OBVIOUS
    <2>1. e < i /\ i \in Nat
        BY PlacesAre DEF Since, EntriesOf
    <2> QED
        BY <1>2, <1>3, <2>1
<1>5. s \in Supps /\ s \in Nat /\ p \in Nat /\ p # s
    <2>1. s \in Supps /\ p \in Supps
        BY OfIsMade
    <2>2. p # s
        BY <1>1
    <2> QED
        BY <2>1, <2>2, PlacesNat
<1>6. ~ (s < p)
    BY <1>0, <1>3, <1>4, <1>5 DEF Kept, InOrder
<1>7. p < s
    BY <1>5, <1>6, OneIsLess
<1> QED
    BY <1>1, <1>7 DEF ScarSent

\* A draft made earlier is not a link of which what was told since is made.
LEMMA DraftIsCut ==
    ASSUME Shape, Orderly, History, NEW r \in Reports, Drafts(r), NEW s \in Of(r), supps[s].gov,
           NEW a \in EntriesOf(s), log[a].status = "ASSESSED",
           NEW u \in Of(r), IsDraft(u), u < s
    PROVE  ScarSent(r, s) \/ ScarCut(r, s)
<1>0. Kept
    BY DEF Orderly
<1>1. u \in Supps /\ Made(u) /\ supps[u].report = r /\ u # s
    <2>1. u \in Supps /\ Made(u) /\ supps[u].report = r /\ s \in Supps
        BY OfIsMade
    <2> QED
        BY <2>1, LessIs, PlacesNat, Zenon
<1>2. PICK e \in DOMAIN log : NewestEntry(u, e)
    BY <1>0, <1>1 DEF Kept, StatusTold
<1>3. e \in Nat /\ e \in EntriesOf(u)
    BY PlacesAre, <1>2 DEF NewestEntry
<1>4. Told(r, u, e)
    BY <1>2 DEF Drafts
<1>5. Frozen(u, s) /\ ToldBefore(u, a)
    BY <1>0, <1>1, EarlierIsFrozen
<1>6. e < a
    <2>1. Settled(r)
        BY DEF Orderly, Settles
    <2>2. \A m \in EntriesOf(u) : m < a
        BY <1>1, <1>5, <2>1, FrozenIs
    <2> QED
        BY <1>3, <2>2
<1>7. a \in Seen(r, TRUE) /\ log[a].supp = s
    BY IssuedIsLeft
<1>8. s \in Since(r, e)
    BY <1>4, <1>6, <1>7 DEF Told
<1>9. CASE Lost(r, e)
    BY <1>3, <1>6, <1>8, <1>9, LostIsSent
<1>10. CASE ~Lost(r, e)
    <2>1. ASSUME NEW y \in Since(r, e), NEW x, x = supps[y].link
          PROVE  x \in Since(r, e) \/ CutOff(r, x, s)
        <3>1. x \in Since(r, e) \/ x = u \/ DeadEnd(r, x, e)
            BY <1>4, <1>10, <2>1 DEF Told, LeadsOn
        <3>2. CutOff(r, u, s)
            BY <1>1, <1>5 DEF CutOff, IsDraft
        <3>3. ASSUME DeadEnd(r, x, e)
              PROVE  CutOff(r, x, s)
            <4>1. ToldBefore(x, e) => ToldBefore(x, a)
                <5>1. \A m \in EntriesOf(x) : m \in Nat
                    BY PlacesAre DEF EntriesOf
                <5>2. a \in Nat
                    BY PlacesAre DEF EntriesOf
                <5> QED
                    BY <1>3, <1>6, <5>1, <5>2, LessIs, Zenon DEF ToldBefore
            <4>2. ToldBefore(x, a) => Frozen(x, s)
                BY DEF Frozen, IssuedAt
            <4> QED
                BY <3>3, <4>1, <4>2 DEF DeadEnd, CutOff
        <3> QED
            BY <3>1, <3>2, <3>3
    <2>2. Since(r, e) \in SUBSET Of(r)
        BY DEF Since
    <2>3. ScarCut(r, s)
        BY <1>8, <2>1, <2>2 DEF ScarCut
    <2> QED
        BY <2>3
<1> QED
    BY <1>9, <1>10

LEMMA ScarMade ==
    ASSUME Shape, Orderly, History, NEW r \in Reports, LinkAge(r), Drafts(r),
           NEW s \in Of(r), s = LatestFor(r, TRUE), supps[s].status = "ASSESSED",
           NEW a \in EntriesOf(s), log[a].status = "ASSESSED", NEW u \in Supps, Open(r, u)
    PROVE  Scar(r, s)
<1>0. Kept
    BY DEF Orderly
<1>1. s \in Supps /\ s \in Nat /\ u \in Of(r) /\ u \in Nat
    BY OfIsMade, PlacesNat DEF Open
<1>2. supps[s].gov
    BY <1>1 DEF History
<1>3. u # s
    BY <1>2 DEF Open
<1>4. CASE s < u
    BY <1>2, <1>4, OpenLater DEF Scar
<1>5. CASE u < s
    <2>1. CASE supps[u].gov
        <3>1. IsDraft(u) \/ supps[u].status \in {"RETURNED", "RECOMMENDED"}
            BY <2>1 DEF Open, IsDraft
        <3>2. CASE IsDraft(u)
            BY <1>1, <1>2, <1>5, <3>2, DraftIsCut DEF Scar
        <3>3. CASE supps[u].status \in {"RETURNED", "RECOMMENDED"}
            BY <1>1, <1>5, <2>1, <3>3 DEF Scar, ScarOpen
        <3> QED
            BY <3>1, <3>2, <3>3
    <2>2. CASE ~supps[u].gov
        <3>1. CASE Linked(r, u) = {}
            BY <1>1, <1>5, <2>2, <3>1 DEF Scar, ScarSent
        <3>2. CASE Linked(r, u) # {}
            <4>1. PICK t \in Linked(r, u) : ~supps[t].gov
                BY <2>2, <3>2 DEF Open
            <4>2. t \in Supps /\ supps[t].report = r /\ supps[t].link = u /\ t # s
                BY <1>2, <4>1, OfIsMade DEF Linked
            <4>3. ToldBefore(u, a)
                BY <1>0, <1>5, EarlierIsFrozen
            <4>4. \A m \in EntriesOf(u) : m < a
                <5>1. Settled(r) /\ supps[u].report = r
                    BY <1>1, OfIsMade DEF Orderly, Settles
                <5> QED
                    BY <1>3, <4>3, <5>1, FrozenIs
            <4>5. ~ \E m \in EntriesOf(u) : a < m
                <5>1. a \in Nat /\ \A m \in EntriesOf(u) : m \in Nat
                    BY PlacesAre DEF EntriesOf
                <5> QED
                    BY <4>4, <5>1
            <4>6. ToldBefore(t, a)
                BY <1>1, <1>3, <4>2, <4>5 DEF LinkAge
            <4>7. Frozen(t, s)
                BY <4>6 DEF Frozen, IssuedAt
            <4> QED
                BY <1>1, <1>5, <2>2, <4>1, <4>7 DEF Scar, ScarSent
        <3> QED
            BY <3>1, <3>2
    <2> QED
        BY <2>1, <2>2
<1> QED
    BY <1>1, <1>3, <1>4, <1>5, OneIsLess

\* The issued one has been overtaken: what is left of it stays.
LEMMA FrozenPast ==
    ASSUME Shape, Orderly, NEW r \in Reports, NEW gov \in BOOLEAN, NEW w \in Supps, Acts(w, r, gov),
           NEW s \in Of(r), NEW v \in Supps, supps[v].report = r, v # s, Frozen(v, s)
    PROVE  Past(v, w, r) /\ Stands(v, r) /\ Frozen(v, s)' /\ v # LatestFor(r, gov)
<1>1. Settled(r)
    BY DEF Orderly, Settles
<1>2. Past(v, w, r) /\ Stands(v, r)
    BY <1>1, FrozenStays
<1>3. v # LatestFor(r, gov)
    BY <1>2 DEF Past
<1> QED
    BY <1>2, <1>3, FrozenKept

LEMMA ScarSentStays ==
    ASSUME Shape, Orderly, NEW r \in Reports, NEW gov \in BOOLEAN, NEW w \in Supps, Acts(w, r, gov),
           NEW s \in Of(r), supps[s].gov, NEW a \in EntriesOf(s), log[a].status = "ASSESSED", ScarSent(r, s)
    PROVE  ScarSent(r, s)'
<1>0. Kept
    BY DEF Orderly
<1>1. PICK u \in Of(r) : /\ u < s /\ ~supps[u].gov
                         /\ Linked(r, u) = {} \/ \E t \in Linked(r, u) : ~supps[t].gov /\ Frozen(t, s)
    BY DEF ScarSent
<1>2. u \in Supps /\ supps[u].report = r /\ u # s
    BY <1>1, OfIsMade
<1>3. Frozen(u, s)
    BY <1>0, <1>1, <1>2, EarlierIsFrozen
<1>4. Stands(u, r) /\ u # LatestFor(r, gov)
    BY <1>2, <1>3, FrozenPast
<1>5. supps'[u] = supps[u] /\ u \in Of(r)'
    BY <1>1, <1>2, <1>4 DEF Stands, Of
<1>6. CASE Linked(r, u) = {}
    <2>1. Linked(r, u)' = {}
        BY <1>4, <1>6, LinksStand
    <2> QED
        BY <1>1, <1>5, <2>1 DEF ScarSent
<1>7. CASE \E t \in Linked(r, u) : ~supps[t].gov /\ Frozen(t, s)
    <2>1. PICK t \in Linked(r, u) : ~supps[t].gov /\ Frozen(t, s)
        BY <1>7
    <2>2. t \in Of(r) /\ t \in Supps /\ supps[t].report = r /\ t # s
        BY <2>1, OfIsMade DEF Linked
    <2>3. Stands(t, r) /\ Frozen(t, s)'
        BY <2>1, <2>2, FrozenPast
    <2>4. supps'[t] = supps[t] /\ t \in Of(r)'
        BY <2>1, <2>2, <2>3 DEF Stands, Of
    <2>5. t \in Linked(r, u)'
        BY <1>4, <2>4, LinksStand
    <2> QED
        BY <1>1, <1>5, <2>1, <2>3, <2>4, <2>5 DEF ScarSent
<1> QED
    BY <1>1, <1>6, <1>7

LEMMA CutStays ==
    ASSUME Shape, Orderly, NEW r \in Reports, NEW gov \in BOOLEAN, NEW w \in Supps, Acts(w, r, gov),
           NEW s \in Of(r), NEW x, x # s, CutOff(r, x, s)
    PROVE  CutOff(r, x, s)'
<1>1. x \in Supps /\ Made(x)
    BY DEF CutOff
<1>2. Made(x)' /\ (x \in Of(r)' => x \in Of(r))
    BY <1>1, MadeStays
<1>3. ASSUME x \in Of(r)'
      PROVE  supps'[x].gov /\ supps'[x].status # "ASSESSED" /\ Frozen(x, s)'
    <2>1. x \in Of(r) /\ supps[x].report = r
        BY <1>2, <1>3, OfIsMade
    <2>2. supps[x].gov /\ supps[x].status # "ASSESSED" /\ Frozen(x, s)
        BY <2>1 DEF CutOff
    <2>3. Stands(x, r) /\ Frozen(x, s)'
        BY <1>1, <2>1, <2>2, FrozenPast
    <2>4. supps'[x] = supps[x]
        BY <1>3, <2>3 DEF Stands
    <2> QED
        BY <2>2, <2>3, <2>4
<1> QED
    BY <1>1, <1>2, <1>3 DEF CutOff

LEMMA ScarCutStays ==
    ASSUME Shape, Orderly, NEW r \in Reports, NEW gov \in BOOLEAN, NEW w \in Supps, Acts(w, r, gov),
           NEW s \in Of(r), s \in Of(r)', ScarCut(r, s)
    PROVE  ScarCut(r, s)'
<1>1. PICK T \in SUBSET Of(r) : s \in T /\ \A y \in T : supps[y].link \in T \/ CutOff(r, supps[y].link, s)
    BY DEF ScarCut
<1>2. PICK U : U = T \intersect Of(r)'
    OBVIOUS
<1>3. U \in SUBSET Of(r)' /\ s \in U
    BY <1>1, <1>2
<1>4. ASSUME NEW y \in U
      PROVE  supps'[y].link \in U \/ CutOff(r, supps[y].link, s)'
    <2>1. y \in T /\ y \in Supps /\ Made(y)
        BY <1>1, <1>2, OfIsMade
    <2>2. PICK x : x = supps[y].link
        OBVIOUS
    <2>3. supps'[y].link = x
        BY <2>1, <2>2, MadeStays DEF Same
    <2>4. x \in T \/ CutOff(r, x, s)
        BY <1>1, <2>1, <2>2
    <2>5. CASE x \in T /\ x \in Of(r)'
        BY <1>2, <2>3, <2>5
    <2>6. CASE x \in T /\ x \notin Of(r)'
        <3>1. x \in Supps /\ Made(x)
            BY <1>1, <2>6, OfIsMade
        <3>2. CutOff(r, x, s)'
            BY <2>6, <3>1, MadeStays DEF CutOff
        <3> QED
            BY <2>3, <3>2
    <2>7. CASE x \notin T
        <3>1. x # s
            BY <1>1, <2>7
        <3>2. CutOff(r, x, s)'
            BY <2>4, <2>7, <3>1, CutStays
        <3> QED
            BY <2>3, <3>2
    <2> QED
        BY <2>5, <2>6, <2>7
<1> QED
    BY <1>3, <1>4 DEF ScarCut

LEMMA ScarKept ==
    ASSUME Shape, Orderly, History, NEW r \in Reports, NEW gov \in BOOLEAN, NEW w \in Supps, Acts(w, r, gov),
           NEW s \in Of(r), s \in Of(r)', NEW a \in EntriesOf(s), log[a].status = "ASSESSED", Scar(r, s)
    PROVE  Scar(r, s)'
<1>0. Kept
    BY DEF Orderly
<1>1. log[a].supp = s /\ supps[s].gov /\ s \in Supps
    BY OfIsMade DEF History, EntriesOf
<1>2. CASE ScarOver(r, s)
    <2>1. PICK i, j : Hidden(r, i, j) /\ s < log[j].supp
        BY <1>2 DEF ScarOver
    <2>2. Hidden(r, i, j)'
        BY <1>0, <2>1, PairStays DEF Orderly, Settles
    <2>3. j \in DOMAIN log /\ j \in EntriesOf(log[j].supp)
        BY <2>1 DEF Hidden, Seen, EntriesOf
    <2>4. log'[j] = log[j]
        BY <2>3, EntriesStay
    <2> QED
        BY <2>1, <2>2, <2>4 DEF Scar, ScarOver
<1>3. CASE ScarOpen(r, s)
    <2>1. PICK u \in Of(r) : u < s /\ supps[u].gov /\ supps[u].status \in {"RETURNED", "RECOMMENDED"}
        BY <1>3 DEF ScarOpen
    <2>2. u \in Supps /\ supps[u].report = r /\ u # s
        <3>1. u \in Supps /\ supps[u].report = r
            BY OfIsMade
        <3> QED
            BY <1>1, <2>1, <3>1, LessIs, PlacesNat, Zenon
    <2>3. Frozen(u, s)
        BY <1>0, <2>1, <2>2, EarlierIsFrozen
    <2>4. Stands(u, r)
        BY <2>2, <2>3, FrozenPast
    <2>5. supps'[u] = supps[u] /\ u \in Of(r)'
        BY <2>1, <2>2, <2>4 DEF Stands, Of
    <2> QED
        BY <2>1, <2>5 DEF Scar, ScarOpen
<1>4. CASE ScarSent(r, s)
    BY <1>1, <1>4, ScarSentStays DEF Scar
<1>5. CASE ScarCut(r, s)
    BY <1>5, ScarCutStays DEF Scar
<1> QED
    BY <1>2, <1>3, <1>4, <1>5 DEF Scar

LEMMA StillKept ==
    ASSUME Shape, Orderly, History, NEW r \in Reports, NEW gov \in BOOLEAN, NEW w \in Supps, Acts(w, r, gov),
           LinkAge(r), Drafts(r), Still(r)
    PROVE  Still(r)'
<1> SUFFICES ASSUME NEW s \in Of(r)', NEW a \in EntriesOf(s)', log'[a].status = "ASSESSED",
                    supps'[s].status # "ASSESSED"
             PROVE  Scar(r, s)'
    BY DEF Still
<1>0. Kept
    BY DEF Orderly
<1>1. a \in EntriesOf(s) /\ log'[a] = log[a]
    <2>1. ~ (s = w /\ Fresh(a, w, gov))
        BY DEF Fresh
    <2> QED
        BY <2>1, EntriesStay
<1>2. s \in Supps /\ Made(s) /\ log[a].status = "ASSESSED" /\ log[a].supp = s
    BY <1>1, LoggedAreMade DEF EntriesOf
<1>3. s \in Of(r)
    BY <1>2, MadeStays
<1>4. Scar(r, s)
    <2>1. CASE supps[s].status # "ASSESSED"
        BY <1>1, <1>2, <1>3, <2>1 DEF Still
    <2>2. CASE supps[s].status = "ASSESSED"
        <3>1. supps[s].gov
            BY <1>2, <2>2 DEF History
        <3>2. s = w
            <4> SUFFICES ASSUME s # w PROVE FALSE
                OBVIOUS
            <4>1. Stands(s, r)
                BY <1>2, OthersStand
            <4>2. supps'[s] = supps[s]
                BY <2>2, <4>1 DEF Stands
            <4> QED
                BY <2>2, <4>2
        <3>3. PICK status \in SentBy(gov) : SavesOne(w, r, gov, status)
            BY <1>2, <2>2, <3>2 DEF Acts, AddsOne, Adds, DropsOne, Drops
        <3>4. w = LatestFor(r, gov) /\ Sends(r, gov) /\ gov = TRUE
            BY <3>1, <3>2, <3>3 DEF SavesOne, Saves
        <3>5. w = LatestFor(r, TRUE) /\ Sends(r, TRUE)
            BY <3>4
        <3>6. PICK u \in Supps : Open(r, u)
            BY <1>0, <3>5, SentFromOpen
        <3>7. s = LatestFor(r, TRUE)
            BY <3>2, <3>5
        <3> QED
            BY <1>1, <1>2, <1>3, <2>2, <3>6, <3>7, ScarMade
    <2> QED
        BY <2>1, <2>2
<1> QED
    BY <1>1, <1>2, <1>3, <1>4, ScarKept

\* The supplemental reports of q, and what is told of them, stay as they are.
Untouched(q) ==
    /\ Of(q)' = Of(q)
    /\ \A t \in Of(q) : supps'[t] = supps[t] /\ EntriesOf(t)' = EntriesOf(t)
    /\ Seen(q, TRUE)' = Seen(q, TRUE)
    /\ \A i \in Seen(q, TRUE) : i \in DOMAIN log /\ log'[i] = log[i]
    /\ \A x \in Supps : Made(x) => Made(x)'
    /\ \A x : \A m \in EntriesOf(x) : m \in EntriesOf(x)' /\ log'[m] = log[m]

LEMMA OthersApart ==
    ASSUME Shape, NEW r \in Reports, NEW gov \in BOOLEAN, NEW w \in Supps, Acts(w, r, gov),
           NEW q \in Reports \ {r}
    PROVE  Untouched(q)
<1>1. Effect(w, r, gov) /\ Grows(w, r, gov)
    BY ActsOn, Growing
<1>2. \A t \in Of(q) : t # w /\ t \in Supps /\ supps[t].report = q
    BY <1>1, OfIsMade DEF Effect, Of
<1>3. w \notin Of(q)'
    BY <1>1 DEF Effect, Of
<1>4. ASSUME NEW t \in Of(q)
      PROVE  supps'[t] = supps[t] /\ EntriesOf(t)' = EntriesOf(t)
    <2>1. Stands(t, r)
        BY <1>2, OthersStand
    <2>2. supps'[t] = supps[t]
        BY <1>2, <2>1, OfIsMade DEF Stands
    <2>3. EntriesOf(t)' = EntriesOf(t)
        BY <1>1, <1>2 DEF Grows, EntriesOf, Fresh
    <2> QED
        BY <2>2, <2>3
<1>5. Of(q)' = Of(q)
    <2>1. \A t \in Of(q)' : t \in Supps
        BY DEF Of
    <2> QED
        BY <1>1, <1>2, <2>1 DEF Effect
<1>6. Seen(q, TRUE)' = Seen(q, TRUE) /\ \A i \in Seen(q, TRUE) : log'[i] = log[i]
    <2>1. ASSUME NEW i \in Seen(q, TRUE)'
          PROVE  i \in Seen(q, TRUE)
        <3>1. log'[i].supp \in Of(q)'
            BY DEF Seen
        <3>2. ~Fresh(i, w, gov)
            BY <1>3, <3>1 DEF Fresh
        <3>3. i \in DOMAIN log
            BY <1>1, <3>2 DEF Grows, Seen
        <3> QED
            BY <1>1, <2>1, <3>3 DEF Grows
    <2>2. ASSUME NEW i \in Seen(q, TRUE)
          PROVE  i \in Seen(q, TRUE)' /\ log'[i] = log[i]
        <3>1. i \in DOMAIN log /\ log[i].supp \in Of(q)'
            BY <1>5 DEF Seen
        <3> QED
            BY <1>1, <3>1 DEF Grows
    <2> QED
        BY <2>1, <2>2
<1>7. \A i \in Seen(q, TRUE) : i \in DOMAIN log
    BY DEF Seen
<1>8. \A x \in Supps : Made(x) => Made(x)'
    BY MadeStays
<1>9. \A x : \A m \in EntriesOf(x) : m \in EntriesOf(x)' /\ log'[m] = log[m]
    BY EntriesStay
<1> QED
    BY <1>4, <1>5, <1>6, <1>7, <1>8, <1>9 DEF Untouched

LEMMA BeforeApart ==
    ASSUME NEW q, Untouched(q), NEW v, NEW a, ToldBefore(v, a)
    PROVE  ToldBefore(v, a)'
BY DEF Untouched, ToldBefore

LEMMA FrozenApart ==
    ASSUME NEW q, Untouched(q), NEW v, NEW s, Frozen(v, s)
    PROVE  Frozen(v, s)'
<1>1. PICK a \in EntriesOf(s) : log[a].status = "ASSESSED" /\ ToldBefore(v, a)
    BY DEF Frozen, IssuedAt
<1>2. a \in EntriesOf(s)' /\ log'[a] = log[a]
    BY DEF Untouched
<1>3. ToldBefore(v, a)'
    BY <1>1, BeforeApart
<1> QED
    BY <1>1, <1>2, <1>3 DEF Frozen, IssuedAt

LEMMA LinkedApart ==
    ASSUME NEW q, Untouched(q), NEW u
    PROVE  Linked(q, u)' = Linked(q, u)
BY DEF Untouched, Linked

LEMMA LinkAgeApart ==
    ASSUME Shape, NEW r \in Reports, NEW gov \in BOOLEAN, NEW w \in Supps, Acts(w, r, gov),
           NEW q \in Reports \ {r}, LinkAge(q)
    PROVE  LinkAge(q)'
<1>1. Effect(w, r, gov) /\ Untouched(q)
    BY ActsOn, OthersApart
<1> SUFFICES ASSUME NEW y \in Supps, NEW p \in Supps, NEW s \in Supps, NEW a \in EntriesOf(s)',
                    supps'[y].report = q, supps'[y].link = p, s \in Of(q)',
                    log'[a].status = "ASSESSED", p # s, y # s
             PROVE  (\E m \in EntriesOf(p)' : a < m) \/ ToldBefore(y, a)'
    BY DEF LinkAge
<1>2. s \in Of(q) /\ a \in EntriesOf(s) /\ log'[a] = log[a]
    BY <1>1 DEF Untouched
<1>3. y # w
    BY <1>1 DEF Effect
<1>4. supps[y].report = q /\ supps[y].link = p
    <2>1. Made(y) => Same(y)
        BY <1>1 DEF Effect
    <2>2. ~Made(y) => supps'[y] = supps[y]
        BY <1>1, <1>3 DEF Effect
    <2> QED
        BY <2>1, <2>2 DEF Same
<1>5. (\E m \in EntriesOf(p) : a < m) \/ ToldBefore(y, a)
    BY <1>2, <1>4 DEF LinkAge
<1>6. \A m \in EntriesOf(p) : m \in EntriesOf(p)'
    BY <1>1 DEF Untouched
<1> QED
    BY <1>1, <1>5, <1>6, BeforeApart

LEMMA DraftsApart ==
    ASSUME NEW q, Untouched(q), Drafts(q)
    PROVE  Drafts(q)'
<1> SUFFICES ASSUME NEW u \in Of(q)', IsDraft(u)', NEW e, NewestEntry(u, e)'
             PROVE  Told(q, u, e)'
    BY DEF Drafts
<1>1. u \in Of(q) /\ IsDraft(u) /\ NewestEntry(u, e)
    BY DEF Untouched, IsDraft, NewestEntry
<1>2. Told(q, u, e)
    BY <1>1 DEF Drafts
<1>3. Since(q, e)' = Since(q, e)
    BY DEF Untouched, Since
<1>4. \A k \in Seen(q, TRUE)' : e < k => log'[k].supp \in Since(q, e)'
    BY <1>2, <1>3 DEF Untouched, Told
<1>5. ASSUME NEW y \in Since(q, e), NEW x, x = supps[y].link
      PROVE  LeadsOn(q, x, u, e)' /\ supps'[y].link = x
    <2>1. y \in Of(q)
        BY DEF Since
    <2>2. supps'[y].link = x
        BY <1>5, <2>1 DEF Untouched
    <2>3. LeadsOn(q, x, u, e)
        BY <1>2, <1>5 DEF Told
    <2>4. CASE DeadEnd(q, x, e)
        <3>1. x \in Supps /\ Made(x)'
            BY <2>4 DEF DeadEnd, Untouched
        <3>2. x \in Of(q)' => x \in Of(q) /\ supps'[x] = supps[x]
            BY DEF Untouched
        <3>3. ToldBefore(x, e) => ToldBefore(x, e)'
            BY BeforeApart
        <3>4. DeadEnd(q, x, e)'
            BY <2>4, <3>1, <3>2, <3>3 DEF DeadEnd
        <3> QED
            BY <2>2, <3>4 DEF LeadsOn
    <2>5. CASE Lost(q, e)
        <3>1. PICK s \in Of(q), p \in Of(q) : \E n \in EntriesOf(s) :
                  /\ n < e /\ log[n].status = "ASSESSED"
                  /\ ~supps[p].gov /\ Linked(q, p) = {} /\ ToldBefore(p, n)
            BY <2>5 DEF Lost
        <3>2. PICK n \in EntriesOf(s) :
                  /\ n < e /\ log[n].status = "ASSESSED"
                  /\ ~supps[p].gov /\ Linked(q, p) = {} /\ ToldBefore(p, n)
            BY <3>1
        <3>3. /\ s \in Of(q)' /\ p \in Of(q)' /\ supps'[p] = supps[p]
              /\ n \in EntriesOf(s)' /\ log'[n] = log[n]
            BY DEF Untouched
        <3>4. Linked(q, p)' = {}
            BY <3>2, LinkedApart
        <3>5. ToldBefore(p, n)'
            BY <3>2, BeforeApart
        <3>6. Lost(q, e)'
            BY <3>2, <3>3, <3>4, <3>5 DEF Lost
        <3> QED
            BY <2>2, <3>6 DEF LeadsOn
    <2> QED
        BY <1>3, <2>2, <2>3, <2>4, <2>5 DEF LeadsOn
<1>6. \A y \in Since(q, e)' : LeadsOn(q, supps[y].link, u, e)'
    <2> SUFFICES ASSUME NEW y \in Since(q, e)
                 PROVE  LeadsOn(q, supps[y].link, u, e)'
        BY <1>3
    <2>1. PICK x : x = supps[y].link
        OBVIOUS
    <2>2. LeadsOn(q, x, u, e)' /\ supps'[y].link = x
        BY <1>5, <2>1
    <2> QED
        BY <2>2
<1> QED
    BY <1>4, <1>6 DEF Told

LEMMA CutApart ==
    ASSUME NEW q, Untouched(q), NEW s, NEW x, CutOff(q, x, s)
    PROVE  CutOff(q, x, s)'
<1>1. x \in Supps /\ Made(x)'
    BY DEF CutOff, Untouched
<1>2. x \in Of(q)' => x \in Of(q) /\ supps'[x] = supps[x]
    BY DEF Untouched
<1>3. Frozen(x, s) => Frozen(x, s)'
    BY FrozenApart
<1> QED
    BY <1>1, <1>2, <1>3 DEF CutOff

LEMMA StillApart ==
    ASSUME NEW q, Untouched(q), Still(q)
    PROVE  Still(q)'
<1> SUFFICES ASSUME NEW s \in Of(q)', NEW a \in EntriesOf(s)', log'[a].status = "ASSESSED",
                    supps'[s].status # "ASSESSED"
             PROVE  Scar(q, s)'
    BY DEF Still
<1>1. s \in Of(q) /\ a \in EntriesOf(s) /\ log'[a] = log[a] /\ supps'[s] = supps[s]
    BY DEF Untouched
<1>2. Scar(q, s)
    BY <1>1 DEF Still
<1>3. CASE ScarOver(q, s)
    <2>1. PICK i, j : Hidden(q, i, j) /\ s < log[j].supp
        BY <1>3 DEF ScarOver
    <2>2. Hidden(q, i, j)' /\ log'[j] = log[j]
        BY <2>1 DEF Untouched, Hidden
    <2> QED
        BY <2>1, <2>2 DEF Scar, ScarOver
<1>4. CASE ScarOpen(q, s)
    BY <1>4 DEF Scar, ScarOpen, Untouched
<1>5. CASE ScarSent(q, s)
    <2>1. PICK u \in Of(q) : /\ u < s /\ ~supps[u].gov
                             /\ Linked(q, u) = {} \/ \E t \in Linked(q, u) : ~supps[t].gov /\ Frozen(t, s)
        BY <1>5 DEF ScarSent
    <2>2. u \in Of(q)' /\ supps'[u] = supps[u] /\ Linked(q, u)' = Linked(q, u)
        BY LinkedApart DEF Untouched
    <2>3. ASSUME NEW t \in Linked(q, u), ~supps[t].gov, Frozen(t, s)
          PROVE  ~supps'[t].gov /\ Frozen(t, s)'
        <3>1. t \in Of(q)
            BY DEF Linked
        <3>2. supps'[t] = supps[t]
            BY <3>1 DEF Untouched
        <3> QED
            BY <2>3, <3>2, FrozenApart
    <2> QED
        BY <2>1, <2>2, <2>3 DEF Scar, ScarSent
<1>6. CASE ScarCut(q, s)
    <2>1. PICK T \in SUBSET Of(q) :
              s \in T /\ \A y \in T : supps[y].link \in T \/ CutOff(q, supps[y].link, s)
        BY <1>6 DEF ScarCut
    <2>2. ASSUME NEW y \in T
          PROVE  supps'[y].link \in T \/ CutOff(q, supps[y].link, s)'
        <3>1. PICK x : x = supps[y].link
            OBVIOUS
        <3>2. supps'[y].link = x
            BY <2>1, <3>1 DEF Untouched
        <3>3. CutOff(q, x, s) => CutOff(q, x, s)'
            BY CutApart
        <3> QED
            BY <2>1, <3>1, <3>2, <3>3
    <2>3. T \in SUBSET Of(q)'
        BY <2>1 DEF Untouched
    <2>4. ScarCut(q, s)'
        BY <2>1, <2>2, <2>3 DEF ScarCut
    <2> QED
        BY <2>4 DEF Scar
<1> QED
    BY <1>2, <1>3, <1>4, <1>5, <1>6 DEF Scar

Traces(r) == LinkAge(r) /\ Drafts(r) /\ Still(r)
Traced == FirstOwn /\ \A r \in Reports : Traces(r)

LEMMA TracedStep ==
    ASSUME Shape, Orderly, History, Traced, SupplementalStep
    PROVE  Traced'
<1>1. Kept /\ FirstOwn
    BY DEF Orderly, Traced
<1>2. PICK r \in Reports, gov \in BOOLEAN : \E w \in Supps : Acts(w, r, gov)
    BY <1>1, StepActs
<1>3. PICK w \in Supps : Acts(w, r, gov)
    BY <1>2
<1>4. FirstOwn'
    BY <1>1, <1>3, FirstOwnKept
<1>5. LinkAge(r) /\ Drafts(r) /\ Still(r)
    BY DEF Traced, Traces
<1>6. LinkAge(r)'
    BY <1>1, <1>3, <1>5, LinkAgeKept
<1>7. Drafts(r)'
    BY <1>1, <1>3, <1>5, DraftsKept
<1>8. Still(r)'
    BY <1>3, <1>5, StillKept
<1>9. ASSUME NEW q \in Reports \ {r}
      PROVE  Traces(q)'
    <2>1. LinkAge(q) /\ Drafts(q) /\ Still(q)
        BY DEF Traced, Traces
    <2>2. Untouched(q)
        BY <1>3, OthersApart
    <2>3. LinkAge(q)'
        BY <1>3, <2>1, LinkAgeApart
    <2>4. Drafts(q)' /\ Still(q)'
        BY <2>1, <2>2, DraftsApart, StillApart
    <2> QED
        BY <2>3, <2>4 DEF Traces
<1>10. Traces(r)'
    BY <1>6, <1>7, <1>8 DEF Traces
<1> QED
    BY <1>4, <1>9, <1>10 DEF Traced

LEMMA TracedInitially ==
    ASSUME Init
    PROVE  Traced
<1>1. log = << >> /\ \A s \in Supps : ~Made(s)
    BY DEF Init, NoSupp, Made
<1>2. DOMAIN log = {}
    BY <1>1
<1>3. \A s : EntriesOf(s) = {}
    BY <1>2 DEF EntriesOf
<1>4. \A r : Of(r) = {}
    BY <1>1 DEF Of, Made
<1>5. FirstOwn
    BY <1>1 DEF FirstOwn
<1>6. \A r : LinkAge(r)
    BY <1>3 DEF LinkAge
<1>7. \A r : Drafts(r) /\ Still(r)
    BY <1>4 DEF Drafts, Still
<1> QED
    BY <1>5, <1>6, <1>7 DEF Traced, Traces

\* Where the links of the supplemental reports lead tells when they were written: what
\* is linked to a submission that was there when another one was issued was there as
\* well; what the government is shown since it saved a draft leads back to the draft,
\* or to what cannot be issued any more; and a reassessment that was issued and is not
\* issued now has left a trace that rules out that they were made one at a time.
THEOREM LinksAreTraced == Spec => []Traced
<1>1. Init => Traced
    BY TracedInitially
<1>2. ASSUME UNCHANGED suppVars
      PROVE  Traced => Traced'
    <2>1. \A r : LinkAge(r) => LinkAge(r)'
        BY <1>2 DEF suppVars, LinkAge, EntriesOf, Of, ToldBefore
    <2>2. \A r : Drafts(r) => Drafts(r)'
        BY <1>2 DEF suppVars, Drafts, IsDraft, NewestEntry, EntriesOf, Told, Since, Seen, LeadsOn, DeadEnd, Lost,
                    ToldBefore, Linked, Of, Made
    <2>3. \A r : Still(r) => Still(r)'
        BY <1>2 DEF suppVars, Still, EntriesOf, Scar, ScarOver, ScarOpen, ScarSent, ScarCut, CutOff, Frozen, IssuedAt,
                    ToldBefore, Hidden, Seen, Linked, Of, Made
    <2>4. FirstOwn => FirstOwn'
        BY <1>2 DEF suppVars, FirstOwn, EntriesOf, Made
    <2> QED
        BY <2>1, <2>2, <2>3, <2>4 DEF Traced, Traces
<1>3. Shape /\ Orderly /\ History /\ Traced /\ [Next]_vars => Traced'
    BY <1>2, TracedStep, StepOfSupplementals
<1> QED
    BY <1>1, <1>3, SupplementalsOfAssessed, WrittenInOrder, HistoryTold, PTL DEF Spec

\* As long as supplemental reports are made one at a time, the assessed one that is
\* the last in the order of the links, whose figures the pages and the next year start
\* from, is the one issued last.
THEOREM LatestIssuedIsLast == Spec => []LatestAssessedIsLast
<1>1. ASSUME Shape, Orderly, History, Traced
      PROVE  LatestAssessedIsLast
    <2> SUFFICES ASSUME NEW r \in Reports, OneAtATime(r), NEW S,
                        S = {i \in DOMAIN log : log[i].supp \in Of(r) /\ log[i].status = "ASSESSED"}, S # {}
                 PROVE  LatestAssessed(r) = log[Newest(S)].supp
        BY DEF LatestAssessedIsLast
    <2>1. S \in SUBSET (1 .. Len(log)) /\ Len(log) \in Nat
        BY <1>1, PlacesAre
    <2>2. PICK e \in S : e = Newest(S) /\ \A m \in S : m <= e
        BY <2>1, NewestIn
    <2>3. Still(r)
        BY <1>1 DEF Traced, Traces
    <2>4. LatestAssessed(r) = log[e].supp
        BY <1>1, <2>2, <2>3, LastIssued
    <2> QED
        BY <2>2, <2>4
<1> QED
    BY <1>1, SupplementalsOfAssessed, WrittenInOrder, HistoryTold, LinksAreTraced, PTL
=============================================================================
