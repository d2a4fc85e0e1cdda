----------------------- MODULE SalesSubmissionProofs -----------------------
(***************************************************************************)
(* Theorems about SalesSubmission, for every set of suppliers, keys,       *)
(* submissions, VINs, sheets and workers.                                  *)
(***************************************************************************)
EXTENDS SalesSubmission, FiniteSetTheorems, WellFoundedInduction, TLAPS

-----------------------------------------------------------------------------
\* Sums over finite sets: induction is by the smallest set for which a claim fails

\* A nonempty set of finite sets has a member such that no proper subset of it
\* is a member.
LEMMA SmallestSet ==
    ASSUME NEW S, IsFiniteSet(S), NEW Bad \in SUBSET (SUBSET S), Bad # {}
    PROVE  \E t \in Bad : \A s \in SUBSET t : s # t => s \notin Bad
<1>1. IsWellFoundedOn(StrictSubsetOrdering(S), SUBSET S)
    BY FS_StrictSubsetOrderingWellFounded, FS_FiniteSubsetsOfFinite
<1>2. PICK t \in Bad : \A s \in Bad : ~ (<<s, t>> \in StrictSubsetOrdering(S))
    BY <1>1, WFMin
<1>3. \A s \in SUBSET t : s # t => s \notin Bad
    BY <1>2 DEF StrictSubsetOrdering
<1> QED
    BY <1>3

-----------------------------------------------------------------------------
\* The recursion behind SumFunctionOnSet

Some(s) == CHOOSE x \in s : TRUE

\* What the partial sums g of h over the subsets of S are computed to.
Step(h, S, g) ==
    [s \in SUBSET S |-> IF s = {} THEN 0 ELSE h[Some(s)] + g[s \ {Some(s)}]]

\* Some is an element.
LEMMA SomeIn == ASSUME NEW s, s # {} PROVE Some(s) \in s
    BY DEF Some

\* Two functions that follow the recursion agree where both are defined.
LEMMA SumsAgree ==
    ASSUME NEW S, IsFiniteSet(S), NEW A \in SUBSET S, NEW B \in SUBSET S, NEW h,
           NEW f, f = Step(h, A, f), NEW g, g = Step(h, B, g),
           NEW t \in SUBSET A, t \in SUBSET B
    PROVE  f[t] = g[t]
<1> DEFINE Bad == {s \in SUBSET (A \cap B) : f[s] # g[s]}
<1> SUFFICES ASSUME Bad # {} PROVE FALSE
    OBVIOUS
<1>0. Bad \in SUBSET (SUBSET S)
    OBVIOUS
<1>1. PICK s \in Bad : \A u \in SUBSET s : u # s => u \notin Bad
    <2> HIDE DEF Bad
    <2> QED
        BY <1>0, SmallestSet
<1>2. s \in SUBSET A /\ s \in SUBSET B
    OBVIOUS
<1>3. f[s] = IF s = {} THEN 0 ELSE h[Some(s)] + f[s \ {Some(s)}]
    BY <1>2 DEF Step
<1>4. g[s] = IF s = {} THEN 0 ELSE h[Some(s)] + g[s \ {Some(s)}]
    BY <1>2 DEF Step
<1>5. s # {}
    BY <1>3, <1>4
<1>6. f[s \ {Some(s)}] = g[s \ {Some(s)}]
    BY <1>1, <1>2, <1>5, SomeIn
<1> QED
    BY <1>3, <1>4, <1>5, <1>6

\* A partial sum exists.
LEMMA SumsExist ==
    ASSUME NEW S, IsFiniteSet(S), NEW h, \A x \in S : h[x] \in Nat
    PROVE  \E g \in [SUBSET S -> Nat] : g = Step(h, S, g)
<1> DEFINE Has(t) == \E g \in [SUBSET t -> Nat] : g = Step(h, t, g)
           Bad == {t \in SUBSET S : ~ Has(t)}
<1> SUFFICES ASSUME Bad # {} PROVE FALSE
    OBVIOUS
<1>0. Bad \in SUBSET (SUBSET S)
    OBVIOUS
<1>1. PICK t \in Bad : \A u \in SUBSET t : u # t => u \notin Bad
    <2> HIDE DEF Bad
    <2> QED
        BY <1>0, SmallestSet
<1>2. \A u \in SUBSET t : u # t => Has(u)
    BY <1>1
<1>3. ~ Has(t) /\ t \in SUBSET S
    BY <1>1
<1> DEFINE G(u) == CHOOSE g \in [SUBSET u -> Nat] : g = Step(h, u, g)
<1>4. \A u \in SUBSET t : u # t => G(u) \in [SUBSET u -> Nat] /\ G(u) = Step(h, u, G(u))
    BY <1>2
<1> DEFINE f == [u \in SUBSET t |-> IF u = t /\ t # {}
                                    THEN h[Some(t)] + G(t \ {Some(t)})[t \ {Some(t)}]
                                    ELSE IF u = {} THEN 0 ELSE G(u)[u]]
<1> HIDE DEF G, Has
<1>5. f \in [SUBSET t -> Nat]
    <2> SUFFICES ASSUME NEW u \in SUBSET t PROVE f[u] \in Nat
        OBVIOUS
    <2>1. CASE u = t /\ t # {}
        <3>1. Some(t) \in t
            BY <2>1, SomeIn
        <3>2. t \ {Some(t)} \in SUBSET t /\ t \ {Some(t)} # t
            BY <3>1
        <3> DEFINE r == t \ {Some(t)}
        <3>3. G(r)[r] \in Nat
            <4>1. r \in SUBSET r
                OBVIOUS
            <4>2. G(r) \in [SUBSET r -> Nat]
                BY <1>4, <3>2
            <4> HIDE DEF r
            <4> QED
                BY <4>1, <4>2
        <3>4. h[Some(t)] \in Nat
            BY <1>3, <3>1
        <3> QED
            BY <2>1, <3>3, <3>4
    <2>2. CASE u # t /\ u # {}
        BY <1>4, <2>2
    <2>3. CASE u = {}
        BY <2>3
    <2> QED
        BY <2>1, <2>2, <2>3
<1>6. \A u \in SUBSET t : u # t => f[u] = G(u)[u]
    <2> SUFFICES ASSUME NEW u \in SUBSET t, u # t, u = {} PROVE G(u)[u] = 0
        OBVIOUS
    <2>1. G(u) = Step(h, u, G(u))
        BY <1>4
    <2>2. u \in SUBSET u
        OBVIOUS
    <2> QED
        BY <2>1, <2>2 DEF Step
<1>7. ASSUME NEW u \in SUBSET t
      PROVE  f[u] = IF u = {} THEN 0 ELSE h[Some(u)] + f[u \ {Some(u)}]
    <2>1. CASE u = {}
        BY <2>1
    <2>2. CASE u # {}
        <3> DEFINE r == u \ {Some(u)}
        <3>1. r \in SUBSET t /\ r # t /\ r \in SUBSET u /\ r # u
            BY <2>2, SomeIn
        <3>2. f[r] = G(r)[r]
            BY <1>6, <3>1
        <3>3. CASE u = t
            BY <2>2, <3>2, <3>3
        <3>4. CASE u # t
            <4>1. f[u] = G(u)[u]
                BY <1>6, <3>4
            <4>2. G(u) = Step(h, u, G(u)) /\ G(r) = Step(h, r, G(r))
                BY <1>4, <3>1, <3>4
            <4>3. G(u)[u] = h[Some(u)] + G(u)[r]
                BY <2>2, <4>2 DEF Step
            <4>4. G(u)[r] = G(r)[r]
                <5>1. u \in SUBSET S /\ r \in SUBSET S /\ r \in SUBSET r
                    BY <1>3, <3>1
                <5> DEFINE a == G(u)
                           b == G(r)
                <5>2. a = Step(h, u, a) /\ b = Step(h, r, b)
                    BY <4>2
                <5> HIDE DEF r, a, b
                <5>3. a[r] = b[r]
                    BY <3>1, <5>1, <5>2, SumsAgree
                <5> QED
                    BY <5>3 DEF a, b
            <4> QED
                BY <2>2, <3>2, <4>1, <4>3, <4>4
        <3> QED
            BY <3>3, <3>4
    <2> QED
        BY <2>1, <2>2
<1>8. f = Step(h, t, f)
    BY <1>5, <1>7 DEF Step
<1> QED
    BY <1>3, <1>5, <1>8 DEF Has

\* The sum is the value of any function that follows the recursion.
LEMMA SumIsLast ==
    ASSUME NEW S, IsFiniteSet(S), NEW h, NEW g, g = Step(h, S, g)
    PROVE  SumFunctionOnSet(h, S) = g[S]
<1> DEFINE iter == CHOOSE f : f = [s \in SUBSET S |->
                       IF s = {} THEN 0 ELSE h[Some(s)] + f[s \ {Some(s)}]]
<1>1. SumFunctionOnSet(h, S) = iter[S]
    BY Zenon DEF SumFunctionOnSet, FoldFunctionOnSet, MapThenFoldSet, Some
<1>2. iter = Step(h, S, iter)
    <2>1. g = [s \in SUBSET S |-> IF s = {} THEN 0 ELSE h[Some(s)] + g[s \ {Some(s)}]]
        BY DEF Step
    <2>2. \E f : f = [s \in SUBSET S |->
                     IF s = {} THEN 0 ELSE h[Some(s)] + f[s \ {Some(s)}]]
        BY <2>1, Zenon
    <2> QED
        BY <2>2, Zenon DEF Step
<1> HIDE DEF iter
<1>3. iter[S] = g[S]
    BY <1>2, SumsAgree
<1> QED
    BY <1>1, <1>3

-----------------------------------------------------------------------------
\* What there is to know of sums

\* A finite sum of natural numbers is a natural number.
THEOREM SumType ==
    ASSUME NEW S, IsFiniteSet(S), NEW h, \A x \in S : h[x] \in Nat
    PROVE  SumFunctionOnSet(h, S) \in Nat
<1>1. PICK g \in [SUBSET S -> Nat] : g = Step(h, S, g)
    BY SumsExist
<1> QED
    BY <1>1, SumIsLast

\* The sum over no element is zero.
LEMMA SumEmpty == ASSUME NEW h PROVE SumFunctionOnSet(h, {}) = 0
<1>1. IsFiniteSet({})
    BY FS_EmptySet
<1>2. PICK g \in [SUBSET {} -> Nat] : g = Step(h, {}, g)
    BY <1>1, SumsExist
<1>3. g[{}] = 0
    BY <1>2 DEF Step
<1> QED
    BY <1>1, <1>2, <1>3, SumIsLast

\* The recursion of the sum.
LEMMA SumOfSome ==
    ASSUME NEW S, IsFiniteSet(S), S # {}, NEW h, \A x \in S : h[x] \in Nat
    PROVE  SumFunctionOnSet(h, S) = h[Some(S)] + SumFunctionOnSet(h, S \ {Some(S)})
<1> DEFINE r == S \ {Some(S)}
<1>1. r \in SUBSET S /\ IsFiniteSet(r)
    BY FS_Subset
<1>2. PICK g \in [SUBSET S -> Nat] : g = Step(h, S, g)
    BY SumsExist
<1>3. PICK f \in [SUBSET r -> Nat] : f = Step(h, r, f)
    BY <1>1, SumsExist
<1>4. g[r] = f[r]
    <2> HIDE DEF r
    <2> QED
        BY <1>1, <1>2, <1>3, SumsAgree
<1>5. SumFunctionOnSet(h, r) = f[r]
    <2> HIDE DEF r
    <2> QED
        BY <1>1, <1>3, SumIsLast
<1>6. SumFunctionOnSet(h, S) = g[S]
    BY <1>2, SumIsLast
<1>7. g[S] = h[Some(S)] + g[r]
    BY <1>2 DEF Step
<1> QED
    BY <1>4, <1>5, <1>6, <1>7

\* The elements can be added in any order.
LEMMA SumRemove ==
    ASSUME NEW S, IsFiniteSet(S), NEW h, \A x \in S : h[x] \in Nat, NEW x \in S
    PROVE  SumFunctionOnSet(h, S) = h[x] + SumFunctionOnSet(h, S \ {x})
<1> DEFINE Sum(t) == SumFunctionOnSet(h, t)
           Bad == {t \in SUBSET S : \E y \in t : Sum(t) # h[y] + Sum(t \ {y})}
<1> SUFFICES ASSUME Bad # {} PROVE FALSE
    OBVIOUS
<1>0. Bad \in SUBSET (SUBSET S)
    OBVIOUS
<1>1. PICK t \in Bad : \A u \in SUBSET t : u # t => u \notin Bad
    <2> HIDE DEF Bad
    <2> QED
        BY <1>0, SmallestSet
<1>2. PICK y \in t : Sum(t) # h[y] + Sum(t \ {y})
    BY <1>1
<1>3. t \in SUBSET S
    BY <1>1
<1>4. \A u \in SUBSET S : IsFiniteSet(u) /\ Sum(u) \in Nat
    BY FS_Subset, SumType
<1> DEFINE z == Some(t)
<1>5. z \in t /\ Sum(t) = h[z] + Sum(t \ {z})
    <2>1. IsFiniteSet(t) /\ t # {}
        BY <1>2, <1>3, <1>4
    <2> QED
        BY <1>3, <2>1, SomeIn, SumOfSome
<1> HIDE DEF z, Sum
<1>6. y # z
    BY <1>2, <1>5
<1>7. Sum(t \ {z}) = h[y] + Sum((t \ {z}) \ {y})
    BY <1>1, <1>2, <1>3, <1>5, <1>6
<1>8. Sum(t \ {y}) = h[z] + Sum((t \ {y}) \ {z})
    BY <1>1, <1>2, <1>3, <1>5, <1>6
<1>9. (t \ {z}) \ {y} = (t \ {y}) \ {z}
    OBVIOUS
<1> DEFINE w == (t \ {y}) \ {z}
<1>10. h[y] \in Nat /\ h[z] \in Nat /\ Sum(w) \in Nat
    BY <1>2, <1>3, <1>4, <1>5
<1>11. Sum(t \ {z}) = h[y] + Sum(w) /\ Sum(t \ {y}) = h[z] + Sum(w)
    BY <1>7, <1>8, <1>9
<1>12. Sum(t) = h[z] + (h[y] + Sum(w))
    BY <1>5, <1>11, Zenon
<1>13. h[y] + Sum(t \ {y}) = h[y] + (h[z] + Sum(w))
    BY <1>11, Zenon
<1> HIDE DEF w
<1>14. h[z] + (h[y] + Sum(w)) = h[y] + (h[z] + Sum(w))
    BY <1>10
<1> QED
    BY <1>2, <1>12, <1>13, <1>14, Zenon

\* A sum does not depend on values outside of the set.
THEOREM SumSame ==
    ASSUME NEW S, IsFiniteSet(S), NEW h, \A x \in S : h[x] \in Nat,
           NEW f, \A x \in S : f[x] = h[x]
    PROVE  SumFunctionOnSet(f, S) = SumFunctionOnSet(h, S)
<1> DEFINE Bad == {t \in SUBSET S : SumFunctionOnSet(f, t) # SumFunctionOnSet(h, t)}
<1> SUFFICES ASSUME Bad # {} PROVE FALSE
    OBVIOUS
<1>0. Bad \in SUBSET (SUBSET S)
    OBVIOUS
<1>1. PICK t \in Bad : \A u \in SUBSET t : u # t => u \notin Bad
    <2> HIDE DEF Bad
    <2> QED
        BY <1>0, SmallestSet
<1>2. t \in SUBSET S /\ IsFiniteSet(t) /\ t # {}
    BY <1>1, FS_Subset, SumEmpty
<1>3. PICK x \in t : TRUE
    BY <1>2
<1>4. SumFunctionOnSet(f, t \ {x}) = SumFunctionOnSet(h, t \ {x})
    BY <1>1, <1>2, <1>3
<1>5. SumFunctionOnSet(f, t) = f[x] + SumFunctionOnSet(f, t \ {x})
    BY <1>2, <1>3, SumRemove
<1>6. SumFunctionOnSet(h, t) = h[x] + SumFunctionOnSet(h, t \ {x})
    BY <1>2, <1>3, SumRemove
<1> QED
    BY <1>1, <1>2, <1>3, <1>4, <1>5, <1>6

\* A sum of which all values but one are zero.
THEOREM SumOfOne ==
    ASSUME NEW S, IsFiniteSet(S), NEW h, NEW x \in S, h[x] \in Nat,
           \A y \in S \ {x} : h[y] = 0
    PROVE  SumFunctionOnSet(h, S) = h[x]
<1> DEFINE zero == [y \in S |-> 0]
           Bad == {t \in SUBSET (S \ {x}) : SumFunctionOnSet(h, t) # 0}
<1>0. Bad \in SUBSET (SUBSET S)
    OBVIOUS
<1>1. \A y \in S : h[y] \in Nat
    OBVIOUS
<1>2. Bad = {}
    <2> SUFFICES ASSUME Bad # {} PROVE FALSE
        OBVIOUS
    <2>1. PICK t \in Bad : \A u \in SUBSET t : u # t => u \notin Bad
        <3> HIDE DEF Bad
        <3> QED
            BY <1>0, SmallestSet
    <2>2. t \in SUBSET (S \ {x}) /\ IsFiniteSet(t) /\ t # {}
        BY <2>1, FS_Subset, SumEmpty
    <2>3. PICK y \in t : TRUE
        BY <2>2
    <2>4. SumFunctionOnSet(h, t \ {y}) = 0
        BY <2>1, <2>2, <2>3
    <2>5. SumFunctionOnSet(h, t) = h[y] + SumFunctionOnSet(h, t \ {y})
        BY <1>1, <2>2, <2>3, SumRemove
    <2> QED
        BY <2>1, <2>2, <2>3, <2>4, <2>5
<1>3. SumFunctionOnSet(h, S \ {x}) = 0
    BY <1>2
<1>4. SumFunctionOnSet(h, S) = h[x] + SumFunctionOnSet(h, S \ {x})
    BY <1>1, SumRemove
<1> QED
    BY <1>3, <1>4

tables == <<status, rows, older, flagged, records, ledger, browser, issuedBefore>>

-----------------------------------------------------------------------------
\* Credits are natural numbers

\* The product of natural numbers is one.
LEMMA ProductType == \A m, n \in Nat : m * n \in Nat
    OBVIOUS

\* The records of a submission are worth a natural number of each credit.
LEMMA WorthType ==
    ASSUME NEW recs \in [Vins -> Nat]
    PROVE  Worth(recs) \in [Keys -> Nat]
<1> SUFFICES ASSUME NEW k \in Keys
             PROVE  SumFunctionOnSet([v \in Vins |-> recs[v] * CreditsOf[v][k]], Vins) \in Nat
    BY DEF Worth
<1> DEFINE h == [v \in Vins |-> recs[v] * CreditsOf[v][k]]
<1>1. \A v \in Vins : h[v] \in Nat
    BY CreditsOfAssumption, ProductType
<1> HIDE DEF h
<1>2. SumFunctionOnSet(h, Vins) \in Nat
    BY <1>1, VinsAssumption, SumType
<1> QED
    BY <1>2 DEF h

\* Adding credits gives credits.
LEMMA PlusType ==
    ASSUME NEW c \in [Keys -> Nat], NEW d \in [Keys -> Nat]
    PROVE  Plus(c, d) \in [Keys -> Nat]
BY DEF Plus

\* No record is a number of records.
LEMMA NoRecordsType == NoRecords \in [Vins -> Nat]
    BY DEF NoRecords

\* An award keeps the types of the ledger.
LEMMA AwardType ==
    ASSUME TypeOK, NEW s \in Submissions, Award(s)
    PROVE  /\ credited' \in [Organizations -> [Keys -> Nat]]
           /\ posted' \in [Submissions -> [Keys -> Nat]]
<1> DEFINE worth == Worth(records[s])
<1>1. worth \in [Keys -> Nat]
    BY WorthType DEF TypeOK
<1>2. /\ credited' = [credited EXCEPT ![Supplier[s]] = Plus(@, worth)]
      /\ posted' = [posted EXCEPT ![s] = Plus(@, worth)]
    BY DEF Award
<1> HIDE DEF worth
<1>3. Supplier[s] \in Organizations
    BY SupplierAssumption
<1> QED
    BY <1>1, <1>2, <1>3, PlusType DEF TypeOK

-----------------------------------------------------------------------------
\* What a step is

\* Request makes a request of its arguments.
LEMMA RequestType ==
    ASSUME TypeOK, NEW s \in Submissions, status[s] # Absent,
           NEW kind \in {"decision", "check", "patch", "upload"}, NEW new \in Statuses,
           NEW vins \in SUBSET Vins
    PROVE  /\ Request(kind, s, new, vins) \in Requests
           /\ Request(kind, s, new, vins).kind = kind
           /\ Request(kind, s, new, vins).submission = s
           /\ Request(kind, s, new, vins).seen = status[s]
           /\ Request(kind, s, new, vins).status = new
           /\ Request(kind, s, new, vins).vins = vins
           /\ Request(kind, s, new, vins).missed = NoRecords
<1>1. status[s] \in Statuses
    BY DEF TypeOK
<1> QED
    BY <1>1, NoRecordsType DEF Request, Requests

\* Worker w starts to serve request r.
Started(w, r) ==
    LET s == r.submission IN
    /\ job[w] = Idle /\ job' = [job EXCEPT ![w] = r]
    /\ UNCHANGED tables
    /\ r \in Requests /\ r.seen = status[s] /\ r.missed = NoRecords
    /\ \/ /\ r.kind = "decision" /\ Allowed(status[s], r.status)
          /\ \E st \in pages[s] : \/ SupplierOffers(st, r.status)
                                  \/ GovernmentOffers(st, r.status)
       \/ /\ r.kind = "check" /\ vinPage[s].open /\ r.status = "CHECKED"
          /\ r.vins \subseteq rows[s] /\ r.vins \cap vinPage[s].shown = vinPage[s].kept
       \/ /\ r.kind = "patch"
          /\ MayComment(s) \/ MayAttach(s)
       \/ /\ r.kind = "upload" /\ "DRAFT" \in pages[s] /\ r.status = status[s]

\* A request that is received is one that Started describes.
LEMMA StartKinds ==
    ASSUME TypeOK, NEW w \in Workers, NEW s \in Submissions, Receive(w, s)
    PROVE  \E r : Started(w, r)
<1>1. ASSUME NEW r, Start(w, r)
      PROVE  job[w] = Idle /\ job' = [job EXCEPT ![w] = r] /\ UNCHANGED tables
    BY <1>1 DEF Start, tables
<1>2. ASSUME NEW new \in Statuses,
             ReceiveSupplier(w, s, new) \/ ReceiveGovernment(w, s, new)
      PROVE  \E r : Started(w, r)
    <2> DEFINE r == Request("decision", s, new, {})
    <2>1. status[s] # Absent
        BY <1>2 DEF ReceiveSupplier, ReceiveGovernment, VisibleToGovernment, Absent
    <2>2. /\ r \in Requests /\ r.kind = "decision" /\ r.submission = s
          /\ r.seen = status[s] /\ r.status = new /\ r.missed = NoRecords
        BY <2>1, RequestType
    <2>3. Start(w, r)
        BY <1>2 DEF ReceiveSupplier, ReceiveGovernment
    <2>4. /\ Allowed(status[s], new)
          /\ \E st \in pages[s] : SupplierOffers(st, new) \/ GovernmentOffers(st, new)
        BY <1>2 DEF ReceiveSupplier, ReceiveGovernment
    <2> HIDE DEF r
    <2>5. Started(w, r)
        BY <1>1, <2>2, <2>3, <2>4 DEF Started
    <2> QED
        BY <2>5
<1>3. CASE ReceivePatch(w, s)
    <2> DEFINE r == Request("patch", s, status[s], {})
    <2>1. status[s] # Absent /\ status[s] \in Statuses
        BY <1>3 DEF ReceivePatch, VisibleToGovernment, TypeOK
    <2>2. /\ r \in Requests /\ r.kind = "patch" /\ r.submission = s
          /\ r.seen = status[s] /\ r.missed = NoRecords
        BY <2>1, RequestType
    <2>3. /\ Start(w, r)
          /\ MayComment(s) \/ MayAttach(s)
        BY <1>3 DEF ReceivePatch
    <2> HIDE DEF r
    <2>4. Started(w, r)
        BY <1>1, <2>2, <2>3 DEF Started
    <2> QED
        BY <2>4
<1>4. ASSUME NEW selected \in SUBSET rows[s], ReceiveCheck(w, s, selected)
      PROVE  \E r : Started(w, r)
    <2> DEFINE r == Request("check", s, "CHECKED", selected)
    <2>1. status[s] # Absent /\ vinPage[s].open
        BY <1>4 DEF ReceiveCheck, VisibleToGovernment
    <2>2. selected \in SUBSET Vins /\ selected \cap vinPage[s].shown = vinPage[s].kept
        <3>1. rows[s] \in SUBSET Vins
            BY DEF TypeOK
        <3> QED
            BY <1>4, <3>1 DEF ReceiveCheck
    <2>3. /\ r \in Requests /\ r.kind = "check" /\ r.submission = s /\ r.status = "CHECKED"
          /\ r.seen = status[s] /\ r.missed = NoRecords /\ r.vins = selected
          /\ r.vins \cap vinPage[s].shown = vinPage[s].kept
        BY <2>1, <2>2, RequestType DEF Statuses
    <2>4. Start(w, r)
        BY <1>4 DEF ReceiveCheck
    <2> HIDE DEF r
    <2>5. Started(w, r)
        BY <1>1, <2>1, <2>3, <2>4 DEF Started
    <2> QED
        BY <2>5
<1>5. ASSUME NEW sheet \in Sheets, ReceiveUpload(w, s, sheet)
      PROVE  \E r : Started(w, r)
    <2> DEFINE r == Request("upload", s, status[s], sheet)
    <2>1. status[s] # Absent /\ status[s] \in Statuses /\ sheet \in SUBSET Vins
        BY <1>5, SheetsAssumption DEF ReceiveUpload, TypeOK
    <2>2. /\ r \in Requests /\ r.kind = "upload" /\ r.submission = s
          /\ r.seen = status[s] /\ r.missed = NoRecords /\ r.status = status[s]
        BY <2>1, RequestType
    <2>3. Start(w, r) /\ "DRAFT" \in pages[s]
        BY <1>5 DEF ReceiveUpload
    <2> HIDE DEF r
    <2>4. Started(w, r)
        BY <1>1, <2>2, <2>3 DEF Started
    <2> QED
        BY <2>4
<1> QED
    BY <1>2, <1>3, <1>4, <1>5 DEF Receive

\* The steps by name.
LEMMA StepKinds ==
    ASSUME TypeOK, [Next]_vars
    PROVE  \/ \E w \in Workers : \E r : Started(w, r)
           \/ \E w \in Workers, s \in Submissions, sheet \in Sheets : UploadNew(w, s, sheet)
           \/ \E w \in Workers, s \in Submissions : OpenVerify(w, s)
           \/ \E w \in Workers, s \in Submissions : TurnPage(w, s)
           \/ \E w \in Workers, s \in Submissions : OpenReview(w, s)
           \/ \E w \in Workers : CommitDecision(w)
           \/ \E w \in Workers : CommitPatch(w)
           \/ \E w \in Workers : CommitCheck(w)
           \/ \E w \in Workers : CommitUpload(w)
           \/ UNCHANGED vars
<1>1. ASSUME NEW w \in Workers, NEW s \in Submissions, Receive(w, s)
      PROVE  \E r : Started(w, r)
    BY <1>1, StartKinds
<1> QED
    BY <1>1, Zenon DEF Next, Open, Commit

\* A worker that is not idle serves a request.
LEMMA JobType ==
    ASSUME TypeOK, NEW w \in Workers, job[w].kind # "idle"
    PROVE  job[w] \in Requests /\ job[w].submission \in Submissions
<1>1. job[w] \in {Idle} \cup Requests
    BY DEF TypeOK
<1>2. job[w] # Idle
    BY DEF Idle
<1> QED
    BY <1>1, <1>2 DEF Requests

-----------------------------------------------------------------------------
\* Type correctness

\* A check keeps the types of what it replaces.
LEMMA CheckType ==
    ASSUME TypeOK, NEW w \in Workers, CommitCheck(w)
    PROVE  /\ older' \in [Submissions -> [Vins -> SUBSET Submissions]]
           /\ records' \in [Submissions -> [Vins -> Nat]]
           /\ job' \in [Workers -> {Idle} \cup Requests]
           /\ job'[w] = Idle
<1> DEFINE j == job[w]
           s == job[w].submission
           made == [v \in Vins |-> IF v \in j.vins THEN 1 ELSE 0]
<1>1. j \in Requests /\ s \in Submissions
    BY JobType DEF CommitCheck
<1>2. made \in [Vins -> Nat] /\ j.missed \in [Vins -> Nat]
    BY <1>1 DEF Requests
<1>3. \A recs \in RecordsAfterCheck(j) : recs \in [Vins -> Nat]
    BY <1>2 DEF RecordsAfterCheck
<1>4. records' \in [Submissions -> [Vins -> Nat]]
    <2>1. PICK recs \in RecordsAfterCheck(j) : records' = [records EXCEPT ![s] = recs]
        BY DEF CommitCheck
    <2> HIDE DEF j, s
    <2> QED
        BY <1>1, <1>3, <2>1 DEF TypeOK
<1>5. older' \in [Submissions -> [Vins -> SUBSET Submissions]]
    <2>1. PICK touched \in (SUBSET rows[s]) \ {{}} : older' = OlderAfterCheck(j, touched)
        BY DEF CommitCheck
    <2>2. \A u \in Submissions, v \in Vins :
              /\ older[u][v] \in SUBSET Submissions
              /\ Recorded(u, v) \in SUBSET Submissions
        BY DEF TypeOK, Recorded
    <2> HIDE DEF j, s
    <2> QED
        BY <2>1, <2>2 DEF OlderAfterCheck
<1>6. job' = [x \in Workers |->
                  IF x = w THEN Idle
                  ELSE IF job[x].kind = "check" /\ job[x].submission = s
                  THEN [job[x] EXCEPT !.missed = made]
                  ELSE job[x]]
    BY DEF CommitCheck
<1>7. ASSUME NEW x \in Workers, job[x].kind = "check"
      PROVE  [job[x] EXCEPT !.missed = made] \in Requests
    <2>1. job[x] \in Requests
        BY <1>7, JobType
    <2> HIDE DEF made
    <2> QED
        BY <1>2, <2>1 DEF Requests
<1>8. job' \in [Workers -> {Idle} \cup Requests]
    <2> HIDE DEF made, s
    <2> QED
        BY <1>6, <1>7 DEF TypeOK
<1> QED
    BY <1>4, <1>5, <1>6, <1>8

\* Every step keeps the types.
LEMMA TypeStep == TypeOK /\ [Next]_vars => TypeOK'
<1> SUFFICES ASSUME TypeOK, [Next]_vars PROVE TypeOK'
    OBVIOUS
<1>1. ASSUME NEW w \in Workers, NEW r, Started(w, r) PROVE TypeOK'
    BY <1>1 DEF Started, tables, ledger, browser, TypeOK
<1>2. ASSUME NEW w \in Workers, NEW s \in Submissions, NEW sheet \in Sheets,
             UploadNew(w, s, sheet)
      PROVE  TypeOK'
    <2>1. sheet \in SUBSET Vins
        BY SheetsAssumption
    <2>2. older' \in [Submissions -> [Vins -> SUBSET Submissions]]
        BY <1>2 DEF UploadNew, Recorded, TypeOK
    <2>3. issuedBefore' \in [Submissions -> SUBSET Vins]
        BY <1>2, <2>1 DEF UploadNew, TypeOK
    <2>4. pages' \in [Submissions -> SUBSET Statuses]
        BY <1>2 DEF UploadNew, Show, TypeOK, Statuses
    <2>5. status' \in [Submissions -> Statuses \cup {Absent}]
        BY <1>2 DEF UploadNew, TypeOK, Statuses
    <2>6. rows' \in [Submissions -> SUBSET Vins]
        BY <1>2, <2>1 DEF UploadNew, TypeOK
    <2> QED
        BY <1>2, <2>2, <2>3, <2>4, <2>5, <2>6 DEF UploadNew, ledger, TypeOK
<1>3. ASSUME NEW w \in Workers, NEW s \in Submissions, OpenVerify(w, s)
      PROVE  TypeOK'
    <2>1. AlreadyAwarded(s) \in SUBSET Vins
        BY DEF AlreadyAwarded, TypeOK
    <2> QED
        BY <1>3, <2>1 DEF OpenVerify, VinPages, ledger, TypeOK
<1>4. ASSUME NEW w \in Workers, NEW s \in Submissions, OpenReview(w, s)
      PROVE  TypeOK'
    <2>1. flagged[s] \in SUBSET Vins
        BY DEF TypeOK
    <2>2. Reviewed(s) \in VinPages
        BY <2>1 DEF Reviewed, VinPages
    <2> QED
        BY <1>4, <2>2 DEF OpenReview, ledger, TypeOK
<1>4a. ASSUME NEW w \in Workers, NEW s \in Submissions, TurnPage(w, s)
      PROVE  TypeOK'
    <2>1. AlreadyAwarded(s) \in SUBSET Vins
        BY DEF AlreadyAwarded, TypeOK
    <2>2. vinPage' \in [Submissions -> {Closed} \cup VinPages]
        <3>1. PICK kept \in SUBSET AlreadyAwarded(s) :
                  vinPage' = [vinPage EXCEPT ![s] = [open |-> TRUE, reset |-> TRUE,
                                     shown |-> AlreadyAwarded(s), kept |-> kept]]
            BY <1>4a DEF TurnPage
        <3>2. [open |-> TRUE, reset |-> TRUE, shown |-> AlreadyAwarded(s), kept |-> kept]
                  \in VinPages
            BY <2>1 DEF VinPages
        <3> QED
            BY <3>1, <3>2 DEF TypeOK
    <2>3. flagged' \in [Submissions -> SUBSET Vins]
        BY <1>4a, <2>1 DEF TurnPage, TypeOK
    <2> QED
        BY <1>4a, <2>2, <2>3 DEF TurnPage, ledger, TypeOK
<1>5. ASSUME NEW w \in Workers, CommitDecision(w) PROVE TypeOK'
    <2> DEFINE j == job[w]
               s == job[w].submission
    <2>1. j \in Requests /\ s \in Submissions /\ j.status \in Statuses
        BY <1>5, JobType DEF CommitDecision, Requests
    <2>2. /\ credited' \in [Organizations -> [Keys -> Nat]]
          /\ posted' \in [Submissions -> [Keys -> Nat]]
        BY <1>5, <2>1, AwardType DEF CommitDecision, ledger, TypeOK
    <2>3. pages' \in [Submissions -> SUBSET Statuses]
        BY <1>5, <2>1 DEF CommitDecision, Show, TypeOK
    <2>4. vinPage' \in [Submissions -> {Closed} \cup VinPages]
        BY <1>5, <2>1 DEF CommitDecision, KeepVinPage, TypeOK
    <2> QED
        BY <1>5, <2>1, <2>2, <2>3, <2>4 DEF CommitDecision, TypeOK
<1>6. ASSUME NEW w \in Workers, CommitPatch(w) PROVE TypeOK'
    <2>1. job[w].submission \in Submissions
        BY <1>6, JobType DEF CommitPatch
    <2>2. /\ credited' \in [Organizations -> [Keys -> Nat]]
          /\ posted' \in [Submissions -> [Keys -> Nat]]
        BY <1>6, <2>1, AwardType DEF CommitPatch, ledger, TypeOK
    <2> QED
        BY <1>6, <2>2 DEF CommitPatch, browser, TypeOK
<1>7. ASSUME NEW w \in Workers, CommitCheck(w) PROVE TypeOK'
    <2> DEFINE j == job[w]
               s == job[w].submission
    <2>1. j \in Requests /\ s \in Submissions /\ j.status \in Statuses
        BY <1>7, JobType DEF CommitCheck, Requests
    <2>2. j.vins \in SUBSET Vins
        BY <2>1 DEF Requests
    <2>3. pages' \in [Submissions -> SUBSET Statuses]
        BY <1>7, <2>1 DEF CommitCheck, Show, TypeOK
    <2>5. vinPage' \in [Submissions -> {Closed} \cup VinPages]
        BY <1>7 DEF CommitCheck, TypeOK
    <2>6. status' \in [Submissions -> Statuses \cup {Absent}]
        BY <1>7, <2>1 DEF CommitCheck, TypeOK
    <2> QED
        BY <1>7, <2>3, <2>5, <2>6, CheckType DEF CommitCheck, ledger, TypeOK
<1>8. ASSUME NEW w \in Workers, CommitUpload(w) PROVE TypeOK'
    <2> DEFINE j == job[w]
               s == job[w].submission
    <2>1. j \in Requests /\ s \in Submissions /\ j.status \in Statuses
        BY <1>8, JobType DEF CommitUpload, Requests
    <2>2. j.vins \in SUBSET Vins
        BY <2>1 DEF Requests
    <2>3. pages' \in [Submissions -> SUBSET Statuses]
        BY <1>8, <2>1 DEF CommitUpload, Show, TypeOK
    <2>4. older' \in [Submissions -> [Vins -> SUBSET Submissions]]
        BY <1>8, <2>1 DEF CommitUpload, Recorded, TypeOK
    <2>5. issuedBefore' \in [Submissions -> SUBSET Vins]
        BY <1>8, <2>1, <2>2 DEF CommitUpload, TypeOK
    <2>6. status' \in [Submissions -> Statuses \cup {Absent}]
        BY <1>8, <2>1 DEF CommitUpload, TypeOK
    <2>7. rows' \in [Submissions -> SUBSET Vins]
        BY <1>8, <2>1, <2>2 DEF CommitUpload, TypeOK
    <2>8. /\ flagged' \in [Submissions -> SUBSET Vins]
          /\ vinPage' \in [Submissions -> {Closed} \cup VinPages]
        BY <1>8 DEF CommitUpload, TypeOK
    <2>9. job' \in [Workers -> {Idle} \cup Requests]
        BY <1>8 DEF CommitUpload, TypeOK
    <2> QED
        BY <1>8, <2>3, <2>4, <2>5, <2>6, <2>7, <2>8, <2>9 DEF CommitUpload, ledger, TypeOK
<1>9. CASE UNCHANGED vars
    BY <1>9 DEF vars, ledger, browser, TypeOK
<1> QED
    BY <1>1, <1>2, <1>3, <1>4, <1>5, <1>6, <1>7, <1>8, <1>9, <1>4a, StepKinds, Zenon

\* Every variable has its type at first.
LEMMA TypeInit == Init => TypeOK
    BY NoRecordsType DEF Init, TypeOK, NoAmount

\* Every variable keeps its type.
THEOREM TypeCorrect == Spec => []TypeOK
<1> QED
    BY TypeInit, TypeStep, PTL DEF Spec

-----------------------------------------------------------------------------
\* One worker and pages that show the stored status

Serial == \A v, w \in Workers : v = w

Verifying == {"SUBMITTED", "CHECKED"}
Checked == {"CHECKED", "RECOMMEND_APPROVAL", "VALIDATED"}

\* A page shows the stored status.
PagesAreFresh(s) == pages[s] \subseteq {status[s]}

\* What a submission posted; a document attached once it is issued posts again.
Posted(s) ==
    IF status[s] = "VALIDATED"
    THEN AttachToIssued \/ posted[s] = Worth(records[s])
    ELSE posted[s] = NoAmount

\* After a check the records select rows, every VIN issued before is flagged and
\* has no record.
Selected(s) ==
    status[s] \in Checked =>
        /\ \A v \in Vins : records[s][v] <= IF v \in rows[s] THEN 1 ELSE 0
        /\ issuedBefore[s] \subseteq flagged[s]
        /\ \A v \in issuedBefore[s] : records[s][v] = 0

\* A VIN issued before has an older record in a submission that is issued.
IssuedIsOlder(s) ==
    \A v \in issuedBefore[s] : v \in rows[s] /\ \E u \in older[s][v] : Issued(u, v)

\* The VIN page is open only while the submission is being verified, and flags
\* every VIN that was issued before and keeps none of them selected.
VinPageIsFresh(s) ==
    vinPage[s].open =>
        /\ status[s] \in Verifying
        /\ issuedBefore[s] \subseteq vinPage[s].shown
        /\ issuedBefore[s] \cap vinPage[s].kept = {}
        /\ issuedBefore[s] \subseteq flagged[s]

Fine(s) ==
    PagesAreFresh(s) /\ Posted(s) /\ Selected(s) /\ IssuedIsOlder(s) /\ VinPageIsFresh(s)

RequestIsFresh(j) ==
    LET s == j.submission IN
    /\ j.seen = status[s] /\ j.missed = NoRecords
    /\ \/ /\ j.kind = "decision" /\ status[s] # "VALIDATED"
          /\ j.status \in Checked => status[s] \in Checked
       \/ /\ j.kind = "check" /\ j.status = "CHECKED" /\ status[s] \in Verifying
          /\ j.vins \subseteq rows[s]
          /\ issuedBefore[s] \cap j.vins = {} /\ issuedBefore[s] \subseteq flagged[s]
       \/ j.kind = "patch" /\ (status[s] = "VALIDATED" => AttachToIssued)
       \/ j.kind = "upload" /\ j.status = "DRAFT" /\ status[s] = "DRAFT"

RequestsAreFresh == \A w \in Workers : job[w] # Idle => RequestIsFresh(job[w])

FreshInv == TypeOK /\ RequestsAreFresh /\ \A s \in Submissions : Fine(s)

\* A step about s, which is not issued, leaves all other submissions alone, but
\* for s itself in what is older.
OnlyTouches(s) ==
    /\ status[s] # "VALIDATED"
    /\ \A b \in Submissions \ {s} :
           /\ status'[b] = status[b] /\ rows'[b] = rows[b] /\ flagged'[b] = flagged[b]
           /\ records'[b] = records[b] /\ posted'[b] = posted[b]
           /\ pages'[b] = pages[b] /\ vinPage'[b] = vinPage[b]
           /\ issuedBefore'[b] = issuedBefore[b]
           /\ \A v \in Vins : older[b][v] \ {s} \subseteq older'[b][v]

\* What is issued stays issued.
LEMMA IssuedStays ==
    ASSUME NEW s \in Submissions, OnlyTouches(s), NEW u \in Submissions, NEW v \in Vins,
           Issued(u, v)
    PROVE  u # s /\ Issued(u, v)'
BY DEF OnlyTouches, Issued

\* If s keeps its rows and what is older then it keeps an issued older record.
LEMMA OlderStays ==
    ASSUME TypeOK, NEW s \in Submissions, OnlyTouches(s), NEW b \in Submissions,
           IssuedIsOlder(b), rows'[b] = rows[b], issuedBefore'[b] = issuedBefore[b],
           \A v \in Vins : \A u \in older[b][v] : Issued(u, v) => u \in older'[b][v]
    PROVE  IssuedIsOlder(b)'
<1>1. \A v \in Vins : older[b][v] \subseteq Submissions
    BY DEF TypeOK
<1>2. issuedBefore[b] \subseteq Vins
    BY DEF TypeOK
<1>3. ASSUME NEW v \in issuedBefore[b]
      PROVE  v \in rows[b] /\ \E u \in older'[b][v] : Issued(u, v)'
    <2>1. PICK u \in older[b][v] : Issued(u, v)
        BY <1>3 DEF IssuedIsOlder
    <2>2. v \in Vins /\ u \in Submissions
        BY <1>1, <1>2
    <2>3. Issued(u, v)' /\ u \in older'[b][v]
        BY <2>1, <2>2, IssuedStays
    <2> QED
        BY <2>3 DEF IssuedIsOlder
<1> QED
    BY <1>3 DEF IssuedIsOlder

\* Nothing about the other submissions changes.
LEMMA OthersStayFine ==
    ASSUME TypeOK, NEW s \in Submissions, OnlyTouches(s),
           NEW b \in Submissions \ {s}, Fine(b)
    PROVE  Fine(b)'
<1>1. PagesAreFresh(b)' /\ Posted(b)' /\ Selected(b)' /\ VinPageIsFresh(b)'
    <2>1. /\ status'[b] = status[b] /\ rows'[b] = rows[b] /\ flagged'[b] = flagged[b]
          /\ records'[b] = records[b] /\ posted'[b] = posted[b]
          /\ pages'[b] = pages[b] /\ vinPage'[b] = vinPage[b]
          /\ issuedBefore'[b] = issuedBefore[b]
        BY DEF OnlyTouches
    <2>2. PagesAreFresh(b)'
        BY <2>1 DEF Fine, PagesAreFresh
    <2>3. Posted(b)'
        BY <2>1 DEF Fine, Posted, Worth
    <2>4. Selected(b)'
        BY <2>1 DEF Fine, Selected
    <2>5. VinPageIsFresh(b)'
        BY <2>1 DEF Fine, VinPageIsFresh
    <2> QED
        BY <2>2, <2>3, <2>4, <2>5
<1>2. \A v \in Vins : \A u \in older[b][v] : Issued(u, v) => u \in older'[b][v]
    BY DEF OnlyTouches, Issued
<1>3. IssuedIsOlder(b)'
    BY <1>2, OlderStays DEF Fine, OnlyTouches
<1> QED
    BY <1>1, <1>3 DEF Fine

\* The requests of a single worker after a commit.
LEMMA NoRequest ==
    ASSUME Serial, NEW w \in Workers, job'[w] = Idle
    PROVE  RequestsAreFresh'
BY DEF Serial, RequestsAreFresh

\* An award to a submission that posted nothing posts what its records are worth.
LEMMA WorthPosted ==
    ASSUME NEW recs \in [Vins -> Nat]
    PROVE  Plus(NoAmount, Worth(recs)) = Worth(recs)
BY WorthType DEF Plus, NoAmount

\* The invariant holds at first.
LEMMA FreshInit == Init => FreshInv
<1> SUFFICES ASSUME Init PROVE FreshInv
    OBVIOUS
<1>1. RequestsAreFresh
    BY DEF Init, RequestsAreFresh
<1>2. ASSUME NEW s \in Submissions PROVE Fine(s)
    BY DEF Init, Fine, PagesAreFresh, Posted, Selected, IssuedIsOlder, VinPageIsFresh,
       Absent, Checked, Closed
<1> QED
    BY <1>1, <1>2, TypeInit DEF FreshInv

\* A request that starts is fresh.
LEMMA StartedIsFresh ==
    ASSUME Serial, FreshInv, NEW w \in Workers, NEW r, Started(w, r)
    PROVE  RequestsAreFresh' /\ \A s \in Submissions : Fine(s)'
<1> DEFINE s == r.submission
<1>1. TypeOK /\ s \in Submissions /\ UNCHANGED tables
    BY DEF FreshInv, Started, Requests
<1>2. \A b \in Submissions : Fine(b)'
    BY <1>1 DEF FreshInv, tables, ledger, browser, Fine, PagesAreFresh, Posted,
       Selected, IssuedIsOlder, Issued, VinPageIsFresh
<1>3. Fine(s)
    BY <1>1 DEF FreshInv
<1>4. r.seen = status[s] /\ r.missed = NoRecords
    BY DEF Started
<1>5. RequestIsFresh(r)
    <2>1. CASE /\ r.kind = "decision" /\ Allowed(status[s], r.status)
               /\ \E st \in pages[s] : \/ SupplierOffers(st, r.status)
                                       \/ GovernmentOffers(st, r.status)
        <3>1. SupplierOffers(status[s], r.status) \/ GovernmentOffers(status[s], r.status)
            BY <1>3, <2>1 DEF Fine, PagesAreFresh
        <3>2. status[s] # "VALIDATED"
            BY <2>1 DEF Allowed
        <3>3. r.status \in Checked => status[s] \in Checked
            BY <3>1 DEF SupplierOffers, GovernmentOffers, Checked
        <3> HIDE DEF s
        <3> QED
            BY <1>4, <2>1, <3>2, <3>3 DEF RequestIsFresh, s
    <2>2. CASE /\ r.kind = "check" /\ vinPage[s].open /\ r.status = "CHECKED"
               /\ r.vins \subseteq rows[s] /\ r.vins \cap vinPage[s].shown = vinPage[s].kept
        BY <1>3, <1>4, <2>2 DEF Fine, VinPageIsFresh, RequestIsFresh
    <2>3. CASE /\ r.kind = "patch"
               /\ MayComment(s) \/ MayAttach(s)
        BY <1>3, <1>4, <2>3 DEF MayComment, MayAttach, Fine, PagesAreFresh, RequestIsFresh
    <2>4. CASE r.kind = "upload" /\ "DRAFT" \in pages[s] /\ r.status = status[s]
        BY <1>3, <1>4, <2>4 DEF Fine, PagesAreFresh, RequestIsFresh
    <2> QED
        BY <2>1, <2>2, <2>3, <2>4 DEF Started
<1>6. RequestIsFresh(r)'
    BY <1>1, <1>5 DEF RequestIsFresh, tables, ledger, browser
<1>7. \A x \in Workers : x = w /\ job'[x] = r
    BY <1>1 DEF Started, Serial, TypeOK
<1> QED
    BY <1>2, <1>6, <1>7 DEF RequestsAreFresh

\* The rows of a sheet that were issued before have an issued older record.
LEMMA SheetIsFine ==
    ASSUME TypeOK, NEW s \in Submissions, OnlyTouches(s), NEW sheet \in SUBSET Vins,
           rows'[s] = sheet,
           older'[s] = [v \in Vins |-> IF v \in sheet THEN Recorded(s, v) ELSE {}],
           issuedBefore'[s] = {v \in sheet : \E u \in Submissions \ {s} : Issued(u, v)}
    PROVE  IssuedIsOlder(s)'
<1>1. ASSUME NEW v \in issuedBefore'[s]
      PROVE  v \in rows'[s] /\ \E u \in older'[s][v] : Issued(u, v)'
    <2>1. v \in sheet /\ v \in Vins
        BY <1>1
    <2>2. PICK u \in Submissions \ {s} : Issued(u, v)
        BY <1>1
    <2>3. u \in older'[s][v]
        BY <2>1, <2>2 DEF Issued, Recorded
    <2>4. Issued(u, v)'
        BY <2>1, <2>2, IssuedStays
    <2> QED
        BY <2>1, <2>3, <2>4
<1> QED
    BY <1>1 DEF IssuedIsOlder

\* A new submission is fine.
LEMMA UploadNewIsFresh ==
    ASSUME Serial, FreshPages, FreshInv, NEW w \in Workers, NEW s \in Submissions,
           NEW sheet \in Sheets, UploadNew(w, s, sheet)
    PROVE  OnlyTouches(s) /\ Fine(s)' /\ RequestsAreFresh'
<1>1. TypeOK /\ Fine(s) /\ sheet \in SUBSET Vins
    BY SheetsAssumption DEF FreshInv
<1>2. OnlyTouches(s)
    BY <1>1 DEF UploadNew, OnlyTouches, Show, ledger, Absent, TypeOK
<1>3. status'[s] = "DRAFT" /\ pages'[s] = {"DRAFT"}
    BY <1>1 DEF UploadNew, Show, TypeOK
<1>4. posted'[s] = NoAmount /\ ~ vinPage'[s].open
    BY <1>1 DEF UploadNew, ledger, Fine, Posted, VinPageIsFresh, Verifying, Absent
<1>5. IssuedIsOlder(s)'
    BY <1>1, <1>2, SheetIsFine DEF UploadNew, TypeOK
<1>6. Fine(s)'
    BY <1>3, <1>4, <1>5 DEF Fine, PagesAreFresh, Posted, Selected, Checked, VinPageIsFresh
<1>7. RequestsAreFresh'
    BY NoRequest DEF UploadNew
<1> QED
    BY <1>2, <1>6, <1>7

\* Opening the VIN page keeps its submission fine.
LEMMA OpenIsFresh ==
    ASSUME Serial, FreshInv, NEW w \in Workers, NEW s \in Submissions,
           OpenVerify(w, s) \/ TurnPage(w, s) \/ OpenReview(w, s)
    PROVE  OnlyTouches(s) /\ Fine(s)' /\ RequestsAreFresh'
<1>1. TypeOK /\ Fine(s)
    BY DEF FreshInv
<1>2. status[s] \in Verifying
    BY <1>1 DEF OpenVerify, TurnPage, OpenReview, Fine, PagesAreFresh, VinPageIsFresh, Verifying
<1>3. OnlyTouches(s)
    BY <1>1, <1>2 DEF OpenVerify, TurnPage, OpenReview, OnlyTouches, ledger, Verifying, TypeOK
<1>4. issuedBefore[s] \subseteq AlreadyAwarded(s)
    BY <1>1 DEF Fine, IssuedIsOlder, Issued, AlreadyAwarded
<1>5. UNCHANGED <<status, rows, older, records, posted, pages, job, issuedBefore>>
    BY DEF OpenVerify, TurnPage, OpenReview, ledger
<1>6. /\ issuedBefore[s] \subseteq flagged'[s]
      /\ issuedBefore[s] \subseteq vinPage'[s].shown
      /\ issuedBefore[s] \cap vinPage'[s].kept = {}
    <2>1. CASE OpenVerify(w, s)
        BY <1>1, <1>4, <2>1 DEF OpenVerify, TypeOK
    <2>2. CASE OpenReview(w, s)
        <3>1. status[s] = "CHECKED"
            BY <1>1, <2>2 DEF OpenReview, Fine, PagesAreFresh
        <3> QED
            BY <1>1, <2>2, <3>1 DEF OpenReview, Reviewed, Fine, Selected, Checked, TypeOK
    <2>3. CASE TurnPage(w, s)
        <3>1. PICK kept \in SUBSET AlreadyAwarded(s) :
                  /\ kept \cap vinPage[s].shown \subseteq vinPage[s].kept
                  /\ vinPage' = [vinPage EXCEPT ![s] = [open |-> TRUE, reset |-> TRUE,
                                     shown |-> AlreadyAwarded(s), kept |-> kept]]
            BY <2>3 DEF TurnPage
        <3>2. issuedBefore[s] \cap kept = {}
            BY <1>1, <2>3, <3>1 DEF TurnPage, Fine, VinPageIsFresh
        <3>3. flagged'[s] = AlreadyAwarded(s)
            BY <1>1, <2>3 DEF TurnPage, TypeOK
        <3> QED
            BY <1>1, <1>4, <3>1, <3>2, <3>3 DEF TypeOK
    <2> QED
        BY <2>1, <2>2, <2>3
<1>7. PagesAreFresh(s)' /\ Posted(s)' /\ IssuedIsOlder(s)'
    BY <1>1, <1>5 DEF Fine, PagesAreFresh, Posted, IssuedIsOlder, Issued
<1>8. Selected(s)'
    BY <1>1, <1>5, <1>6 DEF Fine, Selected
<1>9. VinPageIsFresh(s)'
    BY <1>2, <1>5, <1>6 DEF VinPageIsFresh
<1>10. RequestsAreFresh'
    BY <1>5, NoRequest DEF OpenVerify, TurnPage, OpenReview
<1> QED
    BY <1>3, <1>7, <1>8, <1>9, <1>10 DEF Fine

\* What is known of the request that a commit carries out.
LEMMA CommitRequest ==
    ASSUME FreshInv, NEW w \in Workers, job[w].kind # "idle"
    PROVE  /\ TypeOK /\ job[w] \in Requests /\ job[w].submission \in Submissions
           /\ RequestIsFresh(job[w]) /\ Fine(job[w].submission)
           /\ \/ status[job[w].submission] # "VALIDATED"
              \/ AttachToIssued /\ job[w].kind = "patch"
<1>1. TypeOK /\ job[w] \in Requests /\ job[w].submission \in Submissions
    BY JobType DEF FreshInv
<1>2. job[w] # Idle
    BY DEF Idle
<1>3. RequestIsFresh(job[w]) /\ Fine(job[w].submission)
    BY <1>1, <1>2 DEF FreshInv, RequestsAreFresh
<1>4. \/ status[job[w].submission] # "VALIDATED"
      \/ AttachToIssued /\ job[w].kind = "patch"
    BY <1>3 DEF RequestIsFresh, Verifying
<1> QED
    BY <1>1, <1>3, <1>4

\* A decision keeps its submission fine.
LEMMA DecisionIsFresh ==
    ASSUME Serial, FreshPages, FreshInv, NEW w \in Workers, CommitDecision(w),
           NEW j, j = job[w], NEW s, s = j.submission
    PROVE  OnlyTouches(s) /\ Fine(s)' /\ RequestsAreFresh'
<1>1. /\ TypeOK /\ j \in Requests /\ s \in Submissions /\ RequestIsFresh(j) /\ Fine(s)
      /\ status[s] # "VALIDATED"
    BY CommitRequest DEF CommitDecision
<1>2. /\ status' = [status EXCEPT ![s] = j.status]
      /\ IF j.status = "VALIDATED" THEN Award(s) ELSE UNCHANGED ledger
      /\ pages' = [pages EXCEPT ![s] = {j.status}]
      /\ KeepVinPage(s, j.status)
      /\ job' = [job EXCEPT ![w] = Idle]
      /\ UNCHANGED <<rows, older, flagged, records, issuedBefore>>
    BY DEF CommitDecision, Show
<1>3. j.status \in Checked => status[s] \in Checked
    BY <1>1 DEF RequestIsFresh, CommitDecision
<1>4. job'[w] = Idle
    BY <1>1, <1>2 DEF TypeOK
<1> DEFINE new == j.status
<1> HIDE DEF new
<1>5. status'[s] = new /\ pages'[s] = {new}
    BY <1>1, <1>2 DEF TypeOK, new
<1>6. posted' = IF new = "VALIDATED" THEN [posted EXCEPT ![s] = Worth(records[s])] ELSE posted
    <2>1. posted[s] = NoAmount /\ records[s] \in [Vins -> Nat]
        BY <1>1 DEF Fine, Posted, TypeOK
    <2>2. Plus(NoAmount, Worth(records[s])) = Worth(records[s])
        BY <2>1, WorthPosted
    <2> QED
        BY <1>1, <1>2, <2>1, <2>2 DEF Award, ledger, TypeOK, new
<1>7. vinPage' = IF new \notin Verifying THEN [vinPage EXCEPT ![s] = Closed] ELSE vinPage
    BY <1>2 DEF KeepVinPage, Verifying, new
<1>8. OnlyTouches(s)
    <2>1. ASSUME NEW b \in Submissions \ {s}
          PROVE  status'[b] = status[b] /\ posted'[b] = posted[b] /\ pages'[b] = pages[b]
                 /\ vinPage'[b] = vinPage[b]
        BY <1>1, <1>2, <1>6, <1>7 DEF TypeOK
    <2> QED
        BY <1>1, <1>2, <2>1 DEF OnlyTouches
<1>9. PagesAreFresh(s)'
    BY <1>5 DEF PagesAreFresh
<1>10. Posted(s)'
    <2>1. posted[s] = NoAmount
        BY <1>1 DEF Fine, Posted
    <2> QED
        BY <1>1, <1>2, <1>5, <1>6, <2>1 DEF Posted, TypeOK
<1>11. Selected(s)'
    <2>1. new \in Checked => status[s] \in Checked
        BY <1>3 DEF new
    <2> QED
        BY <1>1, <1>2, <1>5, <2>1 DEF Fine, Selected
<1>12. IssuedIsOlder(s)'
    <2>1. IssuedIsOlder(s)
        BY <1>1 DEF Fine
    <2> QED
        BY <1>1, <1>2, <1>8, <2>1, OlderStays
<1>13. VinPageIsFresh(s)'
    <2>1. CASE new \notin Verifying
        BY <1>1, <1>7, <2>1 DEF VinPageIsFresh, Closed, TypeOK
    <2>2. CASE new \in Verifying
        BY <1>1, <1>2, <1>5, <1>7, <2>2 DEF Fine, VinPageIsFresh
    <2> QED
        BY <2>1, <2>2
<1>14. RequestsAreFresh'
    BY <1>4, NoRequest
<1>15. Fine(s)'
    BY <1>9, <1>10, <1>11, <1>12, <1>13 DEF Fine
<1> QED
    BY <1>8, <1>14, <1>15

\* A patch changes nothing but what an issued submission posted.
LEMMA PatchIsFresh ==
    ASSUME Serial, FreshInv, NEW w \in Workers, CommitPatch(w)
    PROVE  RequestsAreFresh' /\ \A b \in Submissions : Fine(b)'
<1> DEFINE s == job[w].submission
<1>1. /\ TypeOK /\ RequestIsFresh(job[w]) /\ s \in Submissions
      /\ \A b \in Submissions : Fine(b)
    BY CommitRequest DEF CommitPatch, FreshInv
<1>2. /\ job[w].seen = status[s] /\ (status[s] = "VALIDATED" => AttachToIssued)
      /\ job' = [job EXCEPT ![w] = Idle]
      /\ UNCHANGED <<status, rows, older, flagged, records, browser, issuedBefore>>
    BY <1>1 DEF RequestIsFresh, CommitPatch, Verifying
<1>3. ASSUME NEW b \in Submissions PROVE Posted(b)'
    <2>1. posted'[b] = posted[b] \/ (b = s /\ AttachToIssued /\ status[b] = "VALIDATED")
        BY <1>1, <1>2 DEF CommitPatch, Award, ledger, TypeOK
    <2> QED
        BY <1>1, <1>2, <2>1 DEF Fine, Posted
<1>4. \A b \in Submissions : Fine(b)'
    BY <1>1, <1>2, <1>3 DEF browser, Fine, PagesAreFresh,
       Selected, IssuedIsOlder, Issued, VinPageIsFresh
<1>5. job'[w] = Idle
    BY <1>1, <1>2 DEF TypeOK
<1> QED
    BY <1>4, <1>5, NoRequest

\* A check keeps its submission fine.
LEMMA CheckIsFresh ==
    ASSUME Serial, FreshPages, FreshInv, NEW w \in Workers, CommitCheck(w),
           NEW j, j = job[w], NEW s, s = j.submission
    PROVE  OnlyTouches(s) /\ Fine(s)' /\ RequestsAreFresh'
<1> DEFINE made == [v \in Vins |-> IF v \in j.vins THEN 1 ELSE 0]
<1>1. /\ TypeOK /\ j \in Requests /\ s \in Submissions /\ RequestIsFresh(j) /\ Fine(s)
      /\ status[s] # "VALIDATED" /\ j.vins \in SUBSET Vins
    BY CommitRequest DEF CommitCheck, Requests
<1>2. /\ j.missed = NoRecords /\ j.status = "CHECKED" /\ j.vins \subseteq rows[s]
      /\ issuedBefore[s] \cap j.vins = {} /\ issuedBefore[s] \subseteq flagged[s]
    BY <1>1 DEF RequestIsFresh, CommitCheck
<1>3. records' = [records EXCEPT ![s] = made]
    <2>1. [v \in Vins |-> made[v] + j.missed[v]] = made
        BY <1>2 DEF NoRecords
    <2>2. RecordsAfterCheck(j) = {made}
        BY <2>1 DEF RecordsAfterCheck
    <2> HIDE DEF made
    <2> QED
        BY <2>2 DEF CommitCheck
<1>4. /\ status' = [status EXCEPT ![s] = "CHECKED"]
      /\ pages' = [pages EXCEPT ![s] = {"CHECKED"}]
      /\ vinPage' = [vinPage EXCEPT ![s] = Closed]
      /\ UNCHANGED <<rows, flagged, posted, issuedBefore>>
    BY <1>2 DEF CommitCheck, Show, ledger
<1>5. PICK touched \in SUBSET rows[s] : older' = OlderAfterCheck(j, touched)
    BY DEF CommitCheck
<1>6. job'[w] = Idle
    BY <1>1, CheckType
<1>7. /\ \A b \in Submissions \ {s}, v \in Vins : older'[b][v] = older[b][v] \ {s}
      /\ \A v \in Vins : older'[s][v] = IF v \in touched THEN Recorded(s, v) ELSE older[s][v]
    <2> QED
        BY <1>1, <1>5 DEF OlderAfterCheck
<1>8. OnlyTouches(s)
    BY <1>1, <1>3, <1>4, <1>7 DEF OnlyTouches, TypeOK
<1>9. /\ status'[s] = "CHECKED" /\ pages'[s] = {"CHECKED"} /\ ~ vinPage'[s].open
      /\ records'[s] = made
    BY <1>1, <1>3, <1>4 DEF TypeOK, Closed
<1>10. PagesAreFresh(s)' /\ VinPageIsFresh(s)'
    BY <1>9 DEF PagesAreFresh, VinPageIsFresh
<1>11. Posted(s)'
    BY <1>1, <1>4, <1>9 DEF Fine, Posted
<1>12. Selected(s)'
    <2>1. issuedBefore[s] \subseteq Vins
        BY <1>1 DEF TypeOK
    <2>2. \A v \in Vins : made[v] = IF v \in j.vins THEN 1 ELSE 0
        OBVIOUS
    <2> HIDE DEF made
    <2>3. \A v \in Vins : records'[s][v] <= IF v \in rows'[s] THEN 1 ELSE 0
        BY <1>2, <1>4, <1>9, <2>2
    <2>4. issuedBefore'[s] \subseteq flagged'[s]
        BY <1>2, <1>4
    <2>5. \A v \in issuedBefore'[s] : records'[s][v] = 0
        BY <1>2, <1>4, <1>9, <2>1, <2>2
    <2> QED
        BY <2>3, <2>4, <2>5 DEF Selected
<1>13. IssuedIsOlder(s)'
    <2>1. \A v \in Vins : \A u \in older[s][v] : Issued(u, v) => u \in older'[s][v]
        <3> SUFFICES ASSUME NEW v \in Vins, NEW u \in older[s][v], Issued(u, v)
                     PROVE  u \in older'[s][v]
            OBVIOUS
        <3>1. u \in Submissions
            BY <1>1 DEF TypeOK
        <3>2. u \in Recorded(s, v)
            BY <1>1, <3>1 DEF Issued, Recorded
        <3> QED
            BY <1>7, <3>2
    <2>2. IssuedIsOlder(s)
        BY <1>1 DEF Fine
    <2> QED
        BY <1>1, <1>4, <1>8, <2>1, <2>2, OlderStays
<1>14. RequestsAreFresh'
    BY <1>6, NoRequest
<1> QED
    BY <1>8, <1>10, <1>11, <1>12, <1>13, <1>14 DEF Fine

\* A new sheet keeps its submission fine.
LEMMA UploadIsFresh ==
    ASSUME Serial, FreshPages, FreshInv, NEW w \in Workers, CommitUpload(w),
           NEW j, j = job[w], NEW s, s = j.submission
    PROVE  OnlyTouches(s) /\ Fine(s)' /\ RequestsAreFresh'
<1>1. /\ TypeOK /\ j \in Requests /\ s \in Submissions /\ RequestIsFresh(j) /\ Fine(s)
      /\ status[s] # "VALIDATED" /\ j.vins \in SUBSET Vins
    BY CommitRequest DEF CommitUpload, Requests
<1>2. j.status = "DRAFT" /\ status[s] = "DRAFT"
    BY <1>1 DEF RequestIsFresh, CommitUpload
<1>3. /\ rows' = [rows EXCEPT ![s] = j.vins]
      /\ older' = [older EXCEPT ![s] = [v \in Vins |->
                       IF v \in j.vins THEN Recorded(s, v) ELSE {}]]
      /\ flagged' = [flagged EXCEPT ![s] = {}]
      /\ issuedBefore' = [issuedBefore EXCEPT ![s] =
                       {v \in j.vins : \E u \in Submissions \ {s} : Issued(u, v)}]
      /\ status' = [status EXCEPT ![s] = "DRAFT"]
      /\ pages' = [pages EXCEPT ![s] = {"DRAFT"}]
      /\ vinPage' = [vinPage EXCEPT ![s] = Closed]
      /\ UNCHANGED <<records, posted>>
    BY <1>2 DEF CommitUpload, Show, ledger
<1>4. job'[w] = Idle
    BY <1>1 DEF CommitUpload
<1> DEFINE sheet == j.vins
<1> HIDE DEF sheet
<1>5. OnlyTouches(s)
    BY <1>1, <1>3 DEF OnlyTouches, TypeOK
<1>6. /\ status'[s] = "DRAFT" /\ pages'[s] = {"DRAFT"} /\ ~ vinPage'[s].open
      /\ rows'[s] = sheet
      /\ older'[s] = [v \in Vins |-> IF v \in sheet THEN Recorded(s, v) ELSE {}]
      /\ issuedBefore'[s] = {v \in sheet : \E u \in Submissions \ {s} : Issued(u, v)}
    BY <1>1, <1>3 DEF TypeOK, Closed, sheet
<1>7. IssuedIsOlder(s)'
    BY <1>1, <1>5, <1>6, SheetIsFine DEF sheet
<1>8. Posted(s)'
    BY <1>1, <1>2, <1>3, <1>6 DEF Fine, Posted
<1>9. Fine(s)'
    BY <1>6, <1>7, <1>8 DEF Fine, PagesAreFresh, Selected, Checked, VinPageIsFresh
<1>10. RequestsAreFresh'
    BY <1>4, NoRequest
<1> QED
    BY <1>5, <1>9, <1>10

\* Every step of a single worker keeps the invariant.
LEMMA FreshStep == Serial /\ FreshPages /\ FreshInv /\ [Next]_vars => FreshInv'
<1> SUFFICES ASSUME Serial, FreshPages, FreshInv, [Next]_vars PROVE FreshInv'
    OBVIOUS
<1>0. TypeOK /\ TypeOK' /\ \A s \in Submissions : Fine(s)
    BY TypeStep DEF FreshInv
<1>1. ASSUME NEW s \in Submissions, OnlyTouches(s), Fine(s)', RequestsAreFresh'
      PROVE  FreshInv'
    <2>1. \A b \in Submissions \ {s} : Fine(b)'
        BY <1>0, <1>1, OthersStayFine
    <2> QED
        BY <1>0, <1>1, <2>1 DEF FreshInv
<1>2. ASSUME NEW w \in Workers, NEW r, Started(w, r) PROVE FreshInv'
    BY <1>0, <1>2, StartedIsFresh DEF FreshInv
<1>3. ASSUME NEW w \in Workers, NEW s \in Submissions, NEW sheet \in Sheets,
             UploadNew(w, s, sheet)
      PROVE  FreshInv'
    BY <1>1, <1>3, UploadNewIsFresh
<1>4. ASSUME NEW w \in Workers, NEW s \in Submissions,
             OpenVerify(w, s) \/ TurnPage(w, s) \/ OpenReview(w, s)
      PROVE  FreshInv'
    BY <1>1, <1>4, OpenIsFresh
<1>5. ASSUME NEW w \in Workers, CommitDecision(w) PROVE FreshInv'
    <2>1. PICK j, s : j = job[w] /\ s = j.submission
        OBVIOUS
    <2>2. s \in Submissions
        BY <1>5, <2>1, CommitRequest DEF CommitDecision
    <2> QED
        BY <1>1, <1>5, <2>1, <2>2, DecisionIsFresh
<1>6. ASSUME NEW w \in Workers, CommitPatch(w) PROVE FreshInv'
    <2>1. RequestsAreFresh' /\ \A b \in Submissions : Fine(b)'
        BY <1>6, PatchIsFresh
    <2> QED
        BY <1>0, <2>1 DEF FreshInv
<1>7. ASSUME NEW w \in Workers, CommitCheck(w) PROVE FreshInv'
    <2>1. PICK j, s : j = job[w] /\ s = j.submission
        OBVIOUS
    <2>2. s \in Submissions
        BY <1>7, <2>1, CommitRequest DEF CommitCheck
    <2> QED
        BY <1>1, <1>7, <2>1, <2>2, CheckIsFresh
<1>8. ASSUME NEW w \in Workers, CommitUpload(w) PROVE FreshInv'
    <2>1. PICK j, s : j = job[w] /\ s = j.submission
        OBVIOUS
    <2>2. s \in Submissions
        BY <1>8, <2>1, CommitRequest DEF CommitUpload
    <2> QED
        BY <1>1, <1>8, <2>1, <2>2, UploadIsFresh
<1>9. CASE UNCHANGED vars
    BY <1>0, <1>9 DEF vars, ledger, browser, FreshInv, Fine, PagesAreFresh, Posted,
       Selected, IssuedIsOlder, Issued, VinPageIsFresh, RequestsAreFresh, RequestIsFresh
<1> QED
    BY <1>0, <1>2, <1>3, <1>4, <1>5, <1>6, <1>7, <1>8, <1>9, StepKinds, Zenon

\* The credits of a VIN that was issued when the sheet was uploaded are never
\* issued again.
THEOREM IssuedVinsStayOut == Serial /\ FreshPages => (Spec => []IssuedVinNotIssuedAgain)
<1> SUFFICES ASSUME Serial, FreshPages PROVE Spec => []IssuedVinNotIssuedAgain
    OBVIOUS
<1>1. FreshInv => IssuedVinNotIssuedAgain
    BY DEF FreshInv, Fine, Selected, Checked, IssuedVinNotIssuedAgain, Issued
<1> QED
    BY <1>1, FreshInit, FreshStep, PTL DEF Spec

\* From the first check on, the records of sale are a selection of the rows of
\* the sheet, one per row.
THEOREM RecordsAreRows == Serial /\ FreshPages => (Spec => []RecordsSelectRows)
<1> SUFFICES ASSUME Serial, FreshPages PROVE Spec => []RecordsSelectRows
    OBVIOUS
<1>1. FreshInv => RecordsSelectRows
    BY DEF FreshInv, Fine, Selected, Checked, RecordsSelectRows
<1> QED
    BY <1>1, FreshInit, FreshStep, PTL DEF Spec

\* The credits issued for a submission are those of its records, and only a
\* VALIDATED submission has any, if no document is attached once it is issued.
THEOREM RecordsArePosted ==
    Serial /\ FreshPages /\ ~ AttachToIssued => (Spec => []PostedForRecords)
<1> SUFFICES ASSUME Serial, FreshPages, ~ AttachToIssued PROVE Spec => []PostedForRecords
    OBVIOUS
<1>1. FreshInv => PostedForRecords
    BY DEF FreshInv, Fine, Posted, PostedForRecords
<1> QED
    BY <1>1, FreshInit, FreshStep, PTL DEF Spec

-----------------------------------------------------------------------------
\* Submissions implement the ledger

\* A decision that issues credits is an award in the ledger.
LEMMA AwardIsLedgerAward ==
    ASSUME FreshInv, NEW w \in Workers, CommitDecision(w),
           NEW s, s = job[w].submission, job[w].status = "VALIDATED"
    PROVE  Ledger!Next
<1>1. /\ TypeOK /\ s \in Submissions /\ RequestIsFresh(job[w]) /\ Fine(s)
      /\ status[s] # "VALIDATED"
    BY CommitRequest DEF CommitDecision
<1>2. Award(s)
    BY DEF CommitDecision
<1>3. posted[s] = NoAmount
    BY <1>1 DEF Fine, Posted
<1>4. status[s] \in Checked
    BY <1>1 DEF RequestIsFresh, CommitDecision, Checked
<1>5. records[s] \in [Vins -> 0 .. 1]
    <2>1. records[s] \in [Vins -> Nat]
        BY <1>1 DEF TypeOK
    <2>2. \A v \in Vins : records[s][v] <= 1
        BY <1>1, <1>4, <2>1 DEF Fine, Selected
    <2> QED
        BY <2>1, <2>2
<1> DEFINE worth == Worth(records[s])
           o == Supplier[s]
<1>6. worth \in {Worth(recs) : recs \in [Vins -> 0 .. 1]} /\ worth \in [Keys -> Nat]
    <2>1. records[s] \in [Vins -> Nat]
        BY <1>1 DEF TypeOK
    <2> QED
        BY <1>5, <2>1, WorthType
<1>7. o \in Organizations
    BY <1>1, SupplierAssumption
<1>8. credited' = Ledger!Plus(credited, o, worth)
    <2>1. credited' = [credited EXCEPT ![o] = Plus(@, worth)]
        BY <1>2 DEF Award
    <2> HIDE DEF worth, o
    <2> QED
        BY <1>1, <1>7, <2>1 DEF Plus, Ledger!Plus, TypeOK
<1>9. posted' = [posted EXCEPT ![s] = worth]
    <2>1. Plus(NoAmount, worth) = worth
        BY <1>1, WorthPosted DEF TypeOK
    <2> QED
        BY <1>1, <1>2, <1>3, <2>1 DEF Award, TypeOK
<1>10. posted[s] = Ledger!NoAmount
    BY <1>3 DEF NoAmount, Ledger!NoAmount
<1> HIDE DEF worth, o
<1>11. Ledger!Award(s, o, worth)
    BY <1>8, <1>9, <1>10 DEF Ledger!Award
<1> QED
    BY <1>1, <1>6, <1>7, <1>11 DEF Ledger!Next

\* Every step is an award in the ledger or leaves it alone.
LEMMA LedgerStep ==
    ~ AttachToIssued /\ FreshInv /\ [Next]_vars => [Ledger!Next]_(Ledger!vars)
<1> SUFFICES ASSUME ~ AttachToIssued, FreshInv, [Next]_vars PROVE [Ledger!Next]_(Ledger!vars)
    OBVIOUS
<1>0. TypeOK
    BY DEF FreshInv
<1>1. UNCHANGED ledger => UNCHANGED Ledger!vars
    BY DEF ledger, Ledger!vars
<1>2. ASSUME NEW w \in Workers, NEW r, Started(w, r) PROVE UNCHANGED ledger
    BY <1>2 DEF Started, tables
<1>3. ASSUME NEW w \in Workers, NEW s \in Submissions, NEW sheet \in Sheets,
             UploadNew(w, s, sheet)
      PROVE  UNCHANGED ledger
    BY <1>3 DEF UploadNew
<1>4. ASSUME NEW w \in Workers, NEW s \in Submissions,
             OpenVerify(w, s) \/ TurnPage(w, s) \/ OpenReview(w, s)
      PROVE  UNCHANGED ledger
    BY <1>4 DEF OpenVerify, TurnPage, OpenReview
<1>5. ASSUME NEW w \in Workers, CommitDecision(w) PROVE UNCHANGED ledger \/ Ledger!Next
    <2>1. CASE job[w].status = "VALIDATED"
        BY <1>5, <2>1, AwardIsLedgerAward
    <2>2. CASE job[w].status # "VALIDATED"
        BY <1>5, <2>2 DEF CommitDecision
    <2> QED
        BY <2>1, <2>2
<1>6. ASSUME NEW w \in Workers, CommitPatch(w) PROVE UNCHANGED ledger
    <2>1. RequestIsFresh(job[w])
        BY <1>6, CommitRequest DEF CommitPatch
    <2> QED
        BY <1>6, <2>1 DEF RequestIsFresh, CommitPatch
<1>7. ASSUME NEW w \in Workers, CommitCheck(w) PROVE UNCHANGED ledger
    BY <1>7 DEF CommitCheck
<1>8. ASSUME NEW w \in Workers, CommitUpload(w) PROVE UNCHANGED ledger
    BY <1>8 DEF CommitUpload
<1>9. UNCHANGED vars => UNCHANGED ledger
    BY DEF vars
<1> QED
    BY <1>0, <1>1, <1>2, <1>3, <1>4, <1>5, <1>6, <1>7, <1>8, <1>9, StepKinds, Zenon

\* Sales submissions implement the ledger: each one posts at most once, and only
\* an award of the credits of its records, if no document is attached to an
\* issued one.
THEOREM ImplementsLedger ==
    Serial /\ FreshPages /\ ~ AttachToIssued => (Spec => LedgerSpec)
<1> SUFFICES ASSUME Serial, FreshPages, ~ AttachToIssued PROVE Spec => LedgerSpec
    OBVIOUS
<1>1. Init => Ledger!Init
    BY DEF Init, Ledger!Init, NoAmount, Ledger!NoAmount
<1> QED
    BY <1>1, FreshInit, FreshStep, LedgerStep, PTL DEF Spec, LedgerSpec, Ledger!Spec
=============================================================================
