------------------------ MODULE CreditTransferProofs ------------------------
(***************************************************************************)
(* Theorems about CreditTransfer and about its history, TransferHistory,   *)
(* for every set of suppliers, notices, keys, contents and workers, and    *)
(* histories of every length.  How much is pending (Available, and so      *)
(* Sufficient) plays no part in them: only Covered protects the ledger.    *)
(***************************************************************************)
EXTENDS TransferHistory, TLAPS

-----------------------------------------------------------------------------
\* Type correctness

\* A request that any of the three handlers builds is a request.
LEMMA RequestType ==
    ASSUME TypeOK, NEW t \in Transfers, NEW by, NEW status \in Statuses,
           NEW edits \in BOOLEAN, NEW c \in [Keys -> Nat], NEW to \in Organizations
    PROVE  Request(t, by, status, edits, c, to) \in Requests
<1>1. StatusToSave(transfer[t].status, status) \in Statuses
    BY DEF StatusToSave, Statuses
<1>2. Signer(by, status) \in SUBSET Organizations
    BY DEF Signer
<1>3. NoContent \in [Keys -> Nat]
    BY DEF NoContent
<1> QED
    BY <1>1, <1>2, <1>3 DEF Request, Requests

\* The types are inductive by themselves.
LEMMA TypeStep == TypeOK /\ [Next]_vars => TypeOK'
<1> SUFFICES ASSUME TypeOK, [Next]_vars PROVE TypeOK'
    OBVIOUS
<1> USE ContentsAssumption
<1>0. NoContent \in [Keys -> Nat]
    BY DEF NoContent
<1>1. ASSUME NEW w \in Workers, NEW t \in Transfers, NEW r \in Requests,
             job' = [job EXCEPT ![w] = r],
             UNCHANGED <<transfer, content, credited, debited, linked, signed, pages>>
      PROVE  TypeOK'
    BY <1>1 DEF TypeOK
<1>2. ASSUME NEW w \in Workers, NEW t \in Transfers, Receive(w, t)
      PROVE  TypeOK'
    <2>1. ASSUME NEW status \in {"DRAFT", "SUBMITTED"}, NEW c \in Contents,
                 NEW to \in Organizations, ReceivePost(w, t, status, c, to)
          PROVE  TypeOK'
        <3>1. Request(t, transfer[t].debit_from, status, TRUE, c, to) \in Requests
            BY RequestType DEF Statuses
        <3> QED
            BY <2>1, <3>1, <1>1 DEF ReceivePost
    <2>2. ASSUME NEW status \in {"DRAFT", "SUBMITTED", "DELETED"}, NEW c \in Contents,
                 NEW to \in Organizations, ReceiveEdit(w, t, status, c, to)
          PROVE  TypeOK'
        <3>1. Request(t, transfer[t].debit_from, status, TRUE, c, to) \in Requests
            BY RequestType DEF Statuses
        <3> QED
            BY <2>2, <3>1, <1>1 DEF ReceiveEdit
    <2>3. ASSUME NEW by \in Organizations \cup {Government}, NEW status \in Statuses,
                 ReceiveDecision(w, t, by, status)
          PROVE  TypeOK'
        <3>1. transfer[t].credit_to \in Organizations
            BY DEF TypeOK, Rows
        <3>2. Request(t, by, status, FALSE, NoContent, transfer[t].credit_to) \in Requests
            BY <1>0, <3>1, RequestType
        <3> QED
            BY <2>3, <3>2, <1>1 DEF ReceiveDecision
    <2> QED
        BY <1>2, <2>1, <2>2, <2>3 DEF Receive
<1>3. ASSUME NEW w \in Workers, Save(w) PROVE TypeOK'
    <2>1. job[w] \in Requests
        BY <1>3 DEF Save, TypeOK, Idle
    <2>2. [job[w] EXCEPT !.phase = "saved"] \in Requests
        BY <2>1 DEF Requests
    <2> QED
        BY <1>3, <2>2 DEF Save, TypeOK
<1>4. ASSUME NEW w \in Workers, Refuse(w) PROVE TypeOK'
    BY <1>4 DEF Refuse, TypeOK
<1>5. ASSUME NEW w \in Workers, Commit(w) PROVE TypeOK'
    <2> DEFINE j == job[w]
               t == job[w].transfer
    <2>1. j \in Requests /\ t \in Transfers
        BY <1>5 DEF Commit, TypeOK, Idle, Requests
    <2>2. transfer' \in [Transfers -> Rows]
        <3>1. j.status \in Statuses /\ j.credit_to \in Organizations
            BY <2>1 DEF Requests
        <3>2. transfer[t] \in Rows
            BY <2>1 DEF TypeOK
        <3>3. [transfer[t] EXCEPT !.status = j.status, !.credit_to = j.credit_to] \in Rows
            BY <3>1, <3>2 DEF Rows
        <3>4. transfer' = [transfer EXCEPT ![t] =
                  [transfer[t] EXCEPT !.status = j.status, !.credit_to = j.credit_to]]
            BY <1>5, <2>1 DEF Commit, TypeOK, Rows
        <3> QED
            BY <2>1, <3>3, <3>4 DEF TypeOK
    <2>3. PICK c \in ContentToSave(j) : content' = [content EXCEPT ![t] = c] /\ Sign(j, c)
        BY <1>5 DEF Commit
    <2>4. c \in [Keys -> Nat]
        BY <2>1, <2>3 DEF ContentToSave, Plus, TypeOK, Requests
    <2>5. content' \in [Transfers -> [Keys -> Nat]]
        BY <2>1, <2>3, <2>4 DEF TypeOK
    <2>6. signed' \in [Transfers -> [Organizations -> [Keys -> Nat]]]
        <3>1. [o \in Organizations |-> IF o \in j.signer THEN c ELSE signed[t][o]]
                  \in [Organizations -> [Keys -> Nat]]
            BY <2>1, <2>4 DEF TypeOK
        <3> QED
            BY <2>1, <2>3, <3>1 DEF Sign, TypeOK
    <2>7. /\ credited' \in [Organizations -> [Keys -> Nat]]
          /\ debited' \in [Organizations -> [Keys -> Nat]]
          /\ linked' \in [Transfers -> [Keys -> Nat]]
        <3>1. Record(j)
            BY <1>5 DEF Commit
        <3>2. ASSUME NEW a \in [Keys -> Nat], NEW b \in [Keys -> Nat]
              PROVE  Plus(a, b) \in [Keys -> Nat]
            BY DEF Plus
        <3>3. content[t] \in [Keys -> Nat]
            BY <2>1 DEF TypeOK
        <3>4. transfer[t].debit_from \in Organizations /\ j.credit_to \in Organizations
            BY <2>1 DEF TypeOK, Rows, Requests
        <3>5. CASE j.status # "VALIDATED"
            BY <3>1, <3>5 DEF Record, TypeOK
        <3>6. CASE j.status = "VALIDATED"
            <4>1. credited' = [credited EXCEPT ![j.credit_to] = Plus(@, content[t])]
                BY <3>1, <3>6 DEF Record
            <4>2. debited' = [debited EXCEPT ![transfer[t].debit_from] = Plus(@, content[t])]
                BY <3>1, <3>6 DEF Record
            <4>3. linked' = [linked EXCEPT ![t] = Plus(@, content[t])]
                BY <3>1, <3>6 DEF Record
            <4> HIDE DEF j, t
            <4> QED
                BY <2>1, <3>2, <3>3, <3>4, <4>1, <4>2, <4>3 DEF TypeOK
        <3> QED
            BY <3>5, <3>6
    <2>8. pages' \in [Transfers -> SUBSET Statuses]
        BY <1>5, <2>1 DEF Commit, Show, TypeOK, Requests
    <2>9. job' \in [Workers -> Requests \cup {Idle}]
        <3>1. ASSUME NEW v \in Workers, Overlaps(v, j)
              PROVE  [job[v] EXCEPT !.missed = j.content] \in Requests
            <4>1. job[v] \in Requests
                BY <3>1 DEF Overlaps, TypeOK, Idle
            <4>2. j.content \in [Keys -> Nat]
                BY <2>1 DEF Requests
            <4> QED
                BY <4>1, <4>2 DEF Requests
        <3>2. job' = [v \in Workers |->
                         IF v = w THEN Idle
                         ELSE IF Overlaps(v, j) THEN [job[v] EXCEPT !.missed = j.content]
                         ELSE job[v]]
            BY <1>5 DEF Commit, Release
        <3> QED
            BY <3>1, <3>2 DEF TypeOK
    <2> QED
        BY <2>2, <2>5, <2>6, <2>7, <2>8, <2>9 DEF TypeOK
<1>6. CASE UNCHANGED vars
    BY <1>6 DEF vars, TypeOK
<1> QED
    BY <1>2, <1>3, <1>4, <1>5, <1>6 DEF Next

\* Every variable has its type at first.
LEMMA TypeInit == Init => TypeOK
    BY OpeningAssumption DEF Init, TypeOK, Rows, NoContent

\* Every variable keeps its type.
THEOREM TypeCorrect == Spec => []TypeOK
<1>1. Init => TypeOK
    BY TypeInit
<1>2. TypeOK /\ [Next]_vars => TypeOK'
    BY TypeStep
<1> QED
    BY <1>1, <1>2, PTL DEF Spec

-----------------------------------------------------------------------------
\* What a request does to the rows it writes, and to those it does not

\* What a worker that is not idle serves.
LEMMA JobType ==
    ASSUME TypeOK, NEW w \in Workers, job[w].phase \in {"read", "saved"}
    PROVE  job[w] \in Requests /\ job[w].transfer \in Transfers
BY DEF TypeOK, Idle, Requests

\* A commit leaves alone other notices, and the seller of its own.
LEMMA CommitRows ==
    ASSUME TypeOK, NEW w \in Workers, Commit(w)
    PROVE  /\ \A u \in Transfers : transfer'[u].debit_from = transfer[u].debit_from
           /\ \A u \in Transfers \ {job[w].transfer} :
                  transfer'[u] = transfer[u] /\ content'[u] = content[u]
           /\ transfer'[job[w].transfer].status = job[w].status
           /\ transfer'[job[w].transfer].credit_to = job[w].credit_to
<1> DEFINE t == job[w].transfer
<1>1. t \in Transfers
    BY JobType DEF Commit
<1>2. transfer' = [transfer EXCEPT ![t].status = job[w].status,
                                   ![t].credit_to = job[w].credit_to]
    BY DEF Commit
<1>3. transfer[t] \in Rows
    BY <1>1 DEF TypeOK
<1>4. \A u \in Transfers \ {t} : transfer'[u] = transfer[u]
    BY <1>1, <1>2 DEF TypeOK
<1>5. /\ transfer'[t].status = job[w].status
      /\ transfer'[t].credit_to = job[w].credit_to
      /\ transfer'[t].debit_from = transfer[t].debit_from
    BY <1>1, <1>2, <1>3 DEF TypeOK, Rows
<1>6. \A u \in Transfers \ {t} : content'[u] = content[u]
    BY <1>1 DEF Commit, TypeOK
<1> QED
    BY <1>4, <1>5, <1>6

\* A commit ends one request and changes at most what others have missed.
LEMMA CommitJobs ==
    ASSUME TypeOK, NEW w \in Workers, Commit(w)
    PROVE  /\ job'[w] = Idle
           /\ \A v \in Workers \ {w} :
                  /\ job'[v].phase = job[v].phase
                  /\ job'[v].phase \in {"read", "saved"} =>
                         /\ job'[v].transfer = job[v].transfer
                         /\ job'[v].status = job[v].status
                         /\ job'[v].edits = job[v].edits
                         /\ job'[v].content = job[v].content
<1>1. job' = [v \in Workers |->
                 IF v = w THEN Idle
                 ELSE IF Overlaps(v, job[w])
                 THEN [job[v] EXCEPT !.missed = job[w].content]
                 ELSE job[v]]
    BY DEF Commit, Release
<1>2. ASSUME NEW v \in Workers \ {w}, Overlaps(v, job[w])
      PROVE  /\ job'[v].phase = job[v].phase
             /\ job'[v].transfer = job[v].transfer
             /\ job'[v].status = job[v].status
             /\ job'[v].edits = job[v].edits
             /\ job'[v].content = job[v].content
    <2>1. job[v] \in Requests
        BY <1>2, JobType DEF Overlaps
    <2>2. job'[v] = [job[v] EXCEPT !.missed = job[w].content]
        BY <1>1, <1>2
    <2> QED
        BY <2>1, <2>2 DEF Requests
<1>3. ASSUME NEW v \in Workers \ {w}, ~Overlaps(v, job[w])
      PROVE  job'[v] = job[v]
    BY <1>1, <1>3
<1> QED
    BY <1>1, <1>2, <1>3

\* A commit posts to the ledger only if it records, and then the content.
LEMMA CommitLedger ==
    ASSUME TypeOK, NEW w \in Workers, Commit(w), NEW o \in Organizations, NEW k \in Keys
    PROVE  LET t == job[w].transfer
               recorded == job[w].status = "VALIDATED" IN
           /\ credited'[o][k] = credited[o][k]
                  + (IF recorded /\ o = job[w].credit_to THEN content[t][k] ELSE 0)
           /\ debited'[o][k] = debited[o][k]
                  + (IF recorded /\ o = transfer[t].debit_from THEN content[t][k] ELSE 0)
<1> DEFINE t == job[w].transfer
           from == transfer[t].debit_from
           to == job[w].credit_to
<1>1. t \in Transfers /\ job[w] \in Requests
    BY JobType DEF Commit
<1>2. content[t] \in [Keys -> Nat] /\ from \in Organizations /\ to \in Organizations
    BY <1>1 DEF TypeOK, Rows, Requests
<1>3. credited[o][k] \in Nat /\ debited[o][k] \in Nat /\ content[t][k] \in Nat
    BY <1>2 DEF TypeOK
<1>4. CASE job[w].status # "VALIDATED"
    <2>1. UNCHANGED <<credited, debited>>
        BY <1>4 DEF Commit, Record
    <2> QED
        BY <1>3, <1>4, <2>1
<1>5. CASE job[w].status = "VALIDATED"
    <2>1. credited' = [credited EXCEPT ![to] = Plus(@, content[t])]
        BY <1>5 DEF Commit, Record
    <2>2. debited' = [debited EXCEPT ![from] = Plus(@, content[t])]
        BY <1>5 DEF Commit, Record
    <2> HIDE DEF t, from, to
    <2>3. credited'[o][k] = credited[o][k] + (IF o = to THEN content[t][k] ELSE 0)
        BY <1>2, <1>3, <2>1 DEF Plus, TypeOK
    <2>4. debited'[o][k] = debited[o][k] + (IF o = from THEN content[t][k] ELSE 0)
        BY <1>2, <1>3, <2>2 DEF Plus, TypeOK
    <2> QED
        BY <1>5, <2>3, <2>4 DEF t, from, to
<1> QED
    BY <1>4, <1>5

-----------------------------------------------------------------------------
\* Balances

\* The tables, and what a step other than a commit does to the jobs.
tables == <<transfer, content, credited, debited, linked, signed>>

\* A request is received in phase read; it is saved once its row is free and,
\* if it records, the balance covers it; or it ends.
LEMMA StepKinds ==
    ASSUME TypeOK, [Next]_vars
    PROVE  \/ UNCHANGED vars
           \/ \E w \in Workers :
                  \/ Commit(w)
                  \/ /\ UNCHANGED <<tables, pages>>
                     /\ \A v \in Workers \ {w} : job'[v] = job[v]
                     /\ \/ \E t \in Transfers : Receive(w, t) /\ job'[w].phase = "read"
                        \/ Save(w) /\ job'[w] = [job[w] EXCEPT !.phase = "saved"]
                        \/ job'[w] = Idle
<1>1. ASSUME NEW w \in Workers, NEW t \in Transfers, Receive(w, t)
      PROVE  /\ UNCHANGED <<tables, pages>>
             /\ \A v \in Workers \ {w} : job'[v] = job[v]
             /\ job'[w].phase = "read"
    BY <1>1 DEF Receive, ReceivePost, ReceiveEdit, ReceiveDecision, Request, tables, TypeOK
<1>2. ASSUME NEW w \in Workers, Save(w)
      PROVE  /\ UNCHANGED <<tables, pages>>
             /\ \A v \in Workers \ {w} : job'[v] = job[v]
             /\ job'[w] = [job[w] EXCEPT !.phase = "saved"]
    BY <1>2 DEF Save, tables, TypeOK
<1>3. ASSUME NEW w \in Workers, Refuse(w)
      PROVE  /\ UNCHANGED <<tables, pages>>
             /\ \A v \in Workers \ {w} : job'[v] = job[v]
             /\ job'[w] = Idle
    BY <1>3 DEF Refuse, tables, TypeOK
<1> QED
    BY <1>1, <1>2, <1>3 DEF Next

\* No other notice can take o's credits while one of its notices is recorded:
\* requests are served one by one, or o has made no other notice.
Alone(o) ==
    \/ Serial
    \/ \A t, u \in Transfers :
           transfer[t].debit_from = o /\ transfer[u].debit_from = o => t = u

\* The row lock: one transaction at a time has updated a notice.
RowLocks ==
    \A v, w \in Workers :
        v # w /\ job[v].phase = "saved" /\ job[w].phase = "saved"
            => job[v].transfer # job[w].transfer

\* Between the reading of the balance and the commit, the balance still covers
\* the notice if nothing else can take the seller's credits.
SavedIsCovered ==
    \A w \in Workers :
        LET t == job[w].transfer
            from == transfer[t].debit_from IN
        job[w].phase = "saved" /\ job[w].status = "VALIDATED" /\ Alone(from)
            => Covered(from, content[t])

AloneIsCovered ==
    \A o \in Organizations : Alone(o) => \A k \in Keys : Balance(o, k) >= 0

BalanceInv == TypeOK /\ RowLocks /\ SavedIsCovered /\ AloneIsCovered

\* The invariant about balances holds at first.
LEMMA BalanceInit == Init => BalanceInv
<1> SUFFICES ASSUME Init PROVE BalanceInv
    OBVIOUS
<1>1. TypeOK
    BY TypeInit
<1>2. \A w \in Workers : job[w].phase # "saved"
    BY DEF Init, Idle
<1>3. \A o \in Organizations, k \in Keys : Balance(o, k) >= 0
    BY OpeningAssumption DEF Init, Balance, NoContent
<1> QED
    BY <1>1, <1>2, <1>3 DEF BalanceInv, RowLocks, SavedIsCovered, AloneIsCovered

\* Every step keeps the invariant about balances.
LEMMA BalanceStep == BalanceInv /\ [Next]_vars => BalanceInv'
<1> SUFFICES ASSUME BalanceInv, [Next]_vars PROVE BalanceInv'
    OBVIOUS
<1>0. TypeOK /\ TypeOK'
    BY TypeStep DEF BalanceInv
<1>1. CASE UNCHANGED vars
    BY <1>1, <1>0 DEF vars, BalanceInv, RowLocks, SavedIsCovered, AloneIsCovered, Alone,
       Serial, Covered, HasRows, Balance
<1>2. ASSUME NEW w \in Workers, UNCHANGED tables,
             \A v \in Workers \ {w} : job'[v] = job[v], job'[w].phase # "saved"
      PROVE  BalanceInv'
    BY <1>0, <1>2 DEF tables, BalanceInv, RowLocks, SavedIsCovered, AloneIsCovered, Alone,
       Serial, Covered, HasRows, Balance
<1>3. ASSUME NEW w \in Workers, UNCHANGED tables, Save(w),
             \A v \in Workers \ {w} : job'[v] = job[v],
             job'[w] = [job[w] EXCEPT !.phase = "saved"]
      PROVE  BalanceInv'
    <2>1. /\ job'[w].transfer = job[w].transfer
          /\ job'[w].status = job[w].status
        BY <1>0, <1>3, JobType DEF Save, Requests
    <2>2. RowLocks'
        BY <1>3, <2>1 DEF BalanceInv, RowLocks, Save, RowFree
    <2>3. SavedIsCovered'
        BY <1>3, <2>1 DEF tables, BalanceInv, SavedIsCovered, Save, Alone, Serial, Covered,
           HasRows, Balance
    <2>4. AloneIsCovered'
        BY <1>3 DEF tables, BalanceInv, AloneIsCovered, Alone, Serial, Balance
    <2> QED
        BY <1>0, <2>2, <2>3, <2>4 DEF BalanceInv
<1>4. ASSUME NEW w \in Workers, Commit(w)
      PROVE  BalanceInv'
    <2> DEFINE t == job[w].transfer
               from == transfer[t].debit_from
    <2>1. t \in Transfers /\ job[w] \in Requests /\ job[w].phase = "saved"
        BY <1>0, <1>4, JobType DEF Commit
    <2>2. \A u \in Transfers : transfer'[u].debit_from = transfer[u].debit_from
        BY <1>0, <1>4, CommitRows
    <2>3. \A o : Alone(o)' => Alone(o)
        BY <2>2 DEF Alone, Serial
    <2>4. RowLocks'
        BY <1>0, <1>4, CommitJobs DEF BalanceInv, RowLocks, Idle
    <2>5. ASSUME NEW o \in Organizations, NEW k \in Keys
          PROVE  /\ credited[o][k] \in Nat /\ debited[o][k] \in Nat
                 /\ credited'[o][k] \in Nat /\ debited'[o][k] \in Nat
                 /\ content[t][k] \in Nat
        BY <1>0, <2>1 DEF TypeOK
    <2>6. AloneIsCovered'
        <3> SUFFICES ASSUME NEW o \in Organizations, Alone(o)', NEW k \in Keys
                     PROVE  Balance(o, k)' >= 0
            BY DEF AloneIsCovered
        <3>1. Balance(o, k) >= 0
            BY <2>3 DEF BalanceInv, AloneIsCovered
        <3>2. job[w].status = "VALIDATED" /\ o = from
                  => (content[t][k] > 0 => content[t][k] <= Balance(o, k))
            BY <2>1, <2>3 DEF BalanceInv, SavedIsCovered, Covered
        <3> QED
            BY <1>0, <1>4, <2>5, <3>1, <3>2, CommitLedger DEF Balance
    <2>7. SavedIsCovered'
        <3> SUFFICES ASSUME NEW v \in Workers, job'[v].phase = "saved",
                            job'[v].status = "VALIDATED",
                            Alone(transfer[job[v].transfer].debit_from)'
                     PROVE  Covered(transfer[job[v].transfer].debit_from,
                                    content[job[v].transfer])'
            BY <1>0, <1>4, CommitJobs DEF SavedIsCovered, Idle
        <3> DEFINE u == job[v].transfer
                   o == transfer[u].debit_from
        <3>1. /\ v # w
              /\ job'[v].transfer = job[v].transfer
              /\ job[v].status = "VALIDATED" /\ job[v].phase = "saved"
            BY <1>0, <1>4, CommitJobs DEF Idle
        <3>2. u \in Transfers /\ u # t
            BY <1>0, <2>1, <3>1, JobType DEF BalanceInv, RowLocks
        <3>3. /\ transfer'[u] = transfer[u] /\ content'[u] = content[u]
              /\ o \in Organizations
            BY <1>0, <1>4, <3>2, CommitRows DEF TypeOK, Rows
        <3>4. Alone(o) /\ Covered(o, content[u])
            BY <2>3, <3>1, <3>3 DEF BalanceInv, SavedIsCovered
        <3>5. from # o
            BY <2>1, <3>1, <3>2, <3>4 DEF Alone, Serial
        <3>6. ASSUME NEW k \in Keys, content[u][k] > 0
              PROVE  HasRows(o, k)' /\ content[u][k] <= Balance(o, k)'
            <4>1. /\ debited'[o][k] = debited[o][k]
                  /\ credited'[o][k] >= credited[o][k]
                BY <1>0, <1>4, <2>5, <3>3, <3>5, CommitLedger
            <4>2. HasRows(o, k) /\ content[u][k] <= Balance(o, k)
                BY <3>4, <3>6 DEF Covered
            <4>3. content[u][k] \in Nat
                BY <1>0, <3>2 DEF TypeOK
            <4>4. o' = o
                BY <3>1, <3>3
            <4> QED
                BY <2>5, <3>3, <4>1, <4>2, <4>3, <4>4 DEF HasRows, Balance
        <3> QED
            BY <3>1, <3>3, <3>6 DEF Covered
    <2> QED
        BY <1>0, <2>4, <2>6, <2>7 DEF BalanceInv
<1>5. ASSUME NEW w \in Workers, UNCHANGED <<tables, pages>>,
             \A v \in Workers \ {w} : job'[v] = job[v],
             \/ job'[w].phase = "read"
             \/ Save(w) /\ job'[w] = [job[w] EXCEPT !.phase = "saved"]
             \/ job'[w] = Idle
      PROVE  BalanceInv'
    <2>1. UNCHANGED tables
        BY <1>5
    <2>2. "read" # "saved" /\ Idle.phase # "saved"
        BY DEF Idle
    <2> QED
        BY <1>2, <1>3, <1>5, <2>1, <2>2
<1> QED
    BY <1>0, <1>1, <1>4, <1>5, StepKinds

\* No supplier is overdrawn when requests are served one by one, from pages of
\* any age.
THEOREM SerialNeverOverdraws == Serial => (Spec => []NoNegativeBalance)
<1> SUFFICES ASSUME Serial PROVE Spec => []NoNegativeBalance
    OBVIOUS
<1>1. BalanceInv => NoNegativeBalance
    BY DEF BalanceInv, AloneIsCovered, NoNegativeBalance, Alone
<1> QED
    BY <1>1, BalanceInit, BalanceStep, PTL DEF Spec

\* A supplier with one notice is not overdrawn however many workers record it,
\* and from pages of any age.
THEOREM OneNoticeNeverOverdraws == Spec => []SingleNoticeCovered
<1>1. BalanceInv => SingleNoticeCovered
    BY DEF BalanceInv, AloneIsCovered, SingleNoticeCovered, Alone
<1> QED
    BY <1>1, BalanceInit, BalanceStep, PTL DEF Spec

-----------------------------------------------------------------------------
\* The status and the ledger

\* A notice in the table has content, so recording it writes rows.
HaveContent ==
    \A t \in Transfers : transfer[t].status # Absent => content[t] # NoContent

\* Only a notice that is in the table can be recorded.
RequestsAreBased ==
    \A w \in Workers : job[w].phase \in {"read", "saved"} =>
        IF job[w].edits THEN job[w].content \in Contents /\ job[w].status # "VALIDATED"
        ELSE transfer[job[w].transfer].status # Absent

RecordInv == TypeOK /\ HaveContent /\ RequestsAreBased /\ ValidatedWasRecorded

\* The invariant about recorded transfers holds at first.
LEMMA RecordInit == Init => RecordInv
<1> SUFFICES ASSUME Init PROVE RecordInv
    OBVIOUS
<1>1. TypeOK
    BY TypeInit
<1>2. \A w \in Workers : job[w].phase = "idle"
    BY DEF Init, Idle
<1>3. \A t \in Transfers : transfer[t].status = Absent
    BY DEF Init
<1> QED
    BY <1>1, <1>2, <1>3 DEF RecordInv, HaveContent, RequestsAreBased,
       ValidatedWasRecorded, Absent

\* What a handler leaves to be saved.
LEMMA ReceivedIsBased ==
    ASSUME TypeOK, NEW w \in Workers, NEW t \in Transfers, Receive(w, t)
    PROVE  /\ job'[w].transfer = t
           /\ IF job'[w].edits
              THEN job'[w].content \in Contents /\ job'[w].status # "VALIDATED"
              ELSE transfer[t].status # Absent
<1>1. ASSUME NEW by, NEW status, NEW edits, NEW c, NEW to,
             job' = [job EXCEPT ![w] = Request(t, by, status, edits, c, to)]
      PROVE  /\ job'[w].transfer = t /\ job'[w].edits = edits /\ job'[w].content = c
             /\ job'[w].status = StatusToSave(transfer[t].status, status)
    BY <1>1 DEF Request, TypeOK
<1>2. ASSUME NEW status \in {"DRAFT", "SUBMITTED"}, NEW c \in Contents,
             NEW to \in Organizations, ReceivePost(w, t, status, c, to)
      PROVE  /\ job'[w].transfer = t /\ job'[w].edits
             /\ job'[w].content \in Contents /\ job'[w].status # "VALIDATED"
    <2>1. job' = [job EXCEPT ![w] = Request(t, transfer[t].debit_from, status, TRUE, c, to)]
        BY <1>2 DEF ReceivePost
    <2>2. StatusToSave(transfer[t].status, status) # "VALIDATED"
        BY DEF StatusToSave
    <2> QED
        BY <2>1, <2>2, <1>1
<1>3. ASSUME NEW status \in {"DRAFT", "SUBMITTED", "DELETED"}, NEW c \in Contents,
             NEW to \in Organizations, ReceiveEdit(w, t, status, c, to)
      PROVE  /\ job'[w].transfer = t /\ job'[w].edits
             /\ job'[w].content \in Contents /\ job'[w].status # "VALIDATED"
    <2>1. job' = [job EXCEPT ![w] = Request(t, transfer[t].debit_from, status, TRUE, c, to)]
        BY <1>3 DEF ReceiveEdit
    <2>2. StatusToSave(transfer[t].status, status) # "VALIDATED"
        BY DEF StatusToSave
    <2> QED
        BY <2>1, <2>2, <1>1
<1>4. ASSUME NEW by, NEW status, ReceiveDecision(w, t, by, status)
      PROVE  job'[w].transfer = t /\ ~job'[w].edits /\ transfer[t].status # Absent
    BY <1>1, <1>4 DEF ReceiveDecision, Visible
<1> QED
    BY <1>2, <1>3, <1>4 DEF Receive

\* A sum with an amount that is not zero is not zero.
LEMMA PlusNotZero ==
    ASSUME NEW c \in [Keys -> Nat], NEW d \in [Keys -> Nat], c # NoContent
    PROVE  Plus(c, d) # NoContent /\ Plus(d, c) # NoContent
<1>1. PICK k \in Keys : c[k] # 0
    BY DEF NoContent
<1>2. c[k] \in Nat /\ d[k] \in Nat
    OBVIOUS
<1>3. Plus(c, d)[k] # 0 /\ Plus(d, c)[k] # 0
    BY <1>1, <1>2 DEF Plus
<1> QED
    BY <1>3 DEF NoContent

\* Every step keeps the invariant about recorded transfers.
LEMMA RecordStep == RecordInv /\ [Next]_vars => RecordInv'
<1> SUFFICES ASSUME RecordInv, [Next]_vars PROVE RecordInv'
    OBVIOUS
<1>0. TypeOK /\ TypeOK'
    BY TypeStep DEF RecordInv
<1>1. CASE UNCHANGED vars
    BY <1>1, <1>0 DEF vars, RecordInv, HaveContent, RequestsAreBased, ValidatedWasRecorded
<1>2. ASSUME NEW w \in Workers, UNCHANGED tables,
             \A v \in Workers \ {w} : job'[v] = job[v],
             \/ \E t \in Transfers : Receive(w, t)
             \/ Save(w) /\ job'[w] = [job[w] EXCEPT !.phase = "saved"]
             \/ job'[w] = Idle
      PROVE  RecordInv'
    <2>1. HaveContent' /\ ValidatedWasRecorded'
        BY <1>2 DEF tables, RecordInv, HaveContent, ValidatedWasRecorded
    <2>2. job'[w].phase \in {"read", "saved"} =>
              IF job'[w].edits
              THEN job'[w].content \in Contents /\ job'[w].status # "VALIDATED"
              ELSE transfer[job'[w].transfer].status # Absent
        <3>1. CASE \E t \in Transfers : Receive(w, t)
            BY <1>0, <3>1, ReceivedIsBased
        <3>2. CASE Save(w) /\ job'[w] = [job[w] EXCEPT !.phase = "saved"]
            <4>1. job[w] \in Requests /\ job[w].phase = "read"
                BY <1>0, <3>2, JobType DEF Save
            <4>2. /\ job'[w].edits = job[w].edits
                  /\ job'[w].content = job[w].content
                  /\ job'[w].status = job[w].status
                  /\ job'[w].transfer = job[w].transfer
                BY <3>2, <4>1 DEF Requests
            <4> QED
                BY <4>1, <4>2 DEF RecordInv, RequestsAreBased
        <3>3. CASE job'[w] = Idle
            BY <3>3 DEF Idle
        <3> QED
            BY <1>2, <3>1, <3>2, <3>3
    <2>3. transfer' = transfer
        BY <1>2 DEF tables
    <2>4. RequestsAreBased'
        BY <1>2, <2>2, <2>3 DEF RecordInv, RequestsAreBased
    <2> QED
        BY <1>0, <2>1, <2>4 DEF RecordInv
<1>3. ASSUME NEW w \in Workers, Commit(w)
      PROVE  RecordInv'
    <2> DEFINE j == job[w]
               t == job[w].transfer
    <2>1. t \in Transfers /\ j \in Requests /\ j.phase = "saved"
        BY <1>0, <1>3, JobType DEF Commit
    <2>2. /\ \A u \in Transfers \ {t} : transfer'[u] = transfer[u] /\ content'[u] = content[u]
          /\ transfer'[t].status = j.status
        BY <1>0, <1>3, CommitRows
    <2>3. j.status # Absent
        BY <2>1 DEF Requests, Statuses, Absent
    <2>4. content'[t] # NoContent
        <3>1. PICK c \in ContentToSave(j) : content' = [content EXCEPT ![t] = c]
            BY <1>3 DEF Commit
        <3>2. content'[t] = c
            BY <1>0, <2>1, <3>1 DEF TypeOK
        <3>3. CASE j.edits
            <4>1. j.content \in [Keys -> Nat] /\ j.missed \in [Keys -> Nat]
                BY <2>1 DEF Requests
            <4>2. j.content # NoContent
                BY <2>1, <3>3, ContentsAssumption DEF RecordInv, RequestsAreBased
            <4> QED
                BY <3>2, <3>3, <4>1, <4>2, PlusNotZero DEF ContentToSave
        <3>4. CASE ~j.edits
            <4>1. transfer[t].status # Absent
                BY <2>1, <3>4 DEF RecordInv, RequestsAreBased
            <4> QED
                BY <2>1, <3>2, <3>4, <4>1 DEF ContentToSave, RecordInv, HaveContent
        <3> QED
            BY <3>3, <3>4
    <2>5. HaveContent'
        BY <2>2, <2>4 DEF RecordInv, HaveContent
    <2>6. \A u \in Transfers \ {t} : linked'[u] = linked[u]
        BY <1>0, <1>3, <2>1 DEF Commit, Record, TypeOK
    <2>7. j.status = "VALIDATED" => linked'[t] # NoContent
        <3> HAVE j.status = "VALIDATED"
        <3>1. content[t] # NoContent
            BY <2>1 DEF RecordInv, RequestsAreBased, HaveContent
        <3>2. linked'[t] = Plus(linked[t], content[t])
            BY <1>0, <1>3, <2>1 DEF Commit, Record, TypeOK
        <3>3. linked[t] \in [Keys -> Nat] /\ content[t] \in [Keys -> Nat]
            BY <1>0, <2>1 DEF TypeOK
        <3> QED
            BY <3>1, <3>2, <3>3, PlusNotZero
    <2>8. ValidatedWasRecorded'
        BY <2>2, <2>6, <2>7 DEF RecordInv, ValidatedWasRecorded
    <2>9. RequestsAreBased'
        <3> SUFFICES ASSUME NEW v \in Workers, job'[v].phase \in {"read", "saved"}
                     PROVE  IF job'[v].edits
                            THEN job'[v].content \in Contents /\ job'[v].status # "VALIDATED"
                            ELSE transfer'[job'[v].transfer].status # Absent
            BY DEF RequestsAreBased
        <3>1. /\ v # w
              /\ job[v].phase \in {"read", "saved"}
              /\ job'[v].transfer = job[v].transfer /\ job'[v].status = job[v].status
              /\ job'[v].edits = job[v].edits /\ job'[v].content = job[v].content
            BY <1>0, <1>3, CommitJobs DEF Idle
        <3>2. job[v].transfer \in Transfers
            BY <1>0, <3>1, JobType
        <3> QED
            BY <2>2, <2>3, <3>1, <3>2 DEF RecordInv, RequestsAreBased
    <2> QED
        BY <1>0, <2>5, <2>8, <2>9 DEF RecordInv
<1> QED
    <2>1. UNCHANGED <<tables, pages>> => UNCHANGED tables
        OBVIOUS
    <2> QED
        BY <1>0, <1>1, <1>2, <1>3, <2>1, StepKinds

\* No notice is VALIDATED without the rows that moved its credits, however
\* many workers there are and however old the pages.
THEOREM ValidatedAreRecorded == Spec => []ValidatedWasRecorded
<1>1. RecordInv => ValidatedWasRecorded
    BY DEF RecordInv
<1> QED
    BY <1>1, RecordInit, RecordStep, PTL DEF Spec

-----------------------------------------------------------------------------
\* One worker and pages that show the stored status

\* A page offers nothing for a notice whose status is another by now.
PagesAreFresh == \A t \in Transfers : pages[t] \subseteq {transfer[t].status} \ Closed

\* Content is replaced as a whole: it is always something the form offered.
ContentIsOffered ==
    \A t \in Transfers : transfer[t].status # Absent => content[t] \in Contents

\* The seller signs before the buyer sees the notice, the buyer before the
\* government does.
SignedInTurn ==
    \A t \in Transfers :
        /\ transfer[t].status \in UnderReview \cup {"SUBMITTED"}
               => signed[t][transfer[t].debit_from] = content[t]
        /\ transfer[t].status \in UnderReview
               => signed[t][transfer[t].credit_to] = content[t]

\* Request j replaces the content of a notice that nobody reviews ...
EditIsFresh(j) ==
    /\ transfer[j.transfer].status \in Editable \cup {Absent}
    /\ j.content \in Contents /\ j.missed = NoContent
    /\ j.status \in {"DRAFT", "SUBMITTED", "DELETED"}
    /\ j.status = "SUBMITTED" => transfer[j.transfer].debit_from \in j.signer

\* ... or takes a decision that the stored status calls for.
DecisionIsFresh(j) ==
    LET status == transfer[j.transfer].status IN
    /\ status \in {"SUBMITTED", "APPROVED"} \cup Recommended
    /\ j.credit_to = transfer[j.transfer].credit_to
    /\ \/ j.status \in {"RESCINDED", "RESCIND_PRE_APPROVAL", "DISAPPROVED"}
       \/ /\ status = "SUBMITTED" /\ j.status = "APPROVED"
          /\ transfer[j.transfer].credit_to \in j.signer
       \/ status \in {"APPROVED"} \cup Recommended /\ j.status \in UnderReview

RequestsAreFresh ==
    \A w \in Workers : job[w].phase \in {"read", "saved"} =>
        IF job[w].edits THEN EditIsFresh(job[w]) ELSE DecisionIsFresh(job[w])

FreshInv ==
    /\ BalanceInv
    /\ PagesAreFresh /\ ContentIsOffered /\ RequestsAreFresh
    /\ SignedInTurn /\ LedgerAgreesWithStatus

\* The invariant holds at first.
LEMMA FreshInit == Init => FreshInv
<1> SUFFICES ASSUME Init PROVE FreshInv
    OBVIOUS
<1>1. BalanceInv
    BY BalanceInit
<1>2. \A w \in Workers : job[w].phase = "idle"
    BY DEF Init, Idle
<1>3. \A t \in Transfers : /\ transfer[t].status = Absent
                           /\ pages[t] = {} /\ linked[t] = NoContent
    BY DEF Init
<1> QED
    BY <1>1, <1>2, <1>3 DEF FreshInv, PagesAreFresh, ContentIsOffered, RequestsAreFresh,
       SignedInTurn, LedgerAgreesWithStatus, Absent, UnderReview, Recommended

\* What a handler makes of what a fresh page offers.
LEMMA ReceivedIsFresh ==
    ASSUME FreshInv, NEW w \in Workers, NEW t \in Transfers, Receive(w, t)
    PROVE  IF job'[w].edits THEN EditIsFresh(job'[w]) ELSE DecisionIsFresh(job'[w])
<1> DEFINE seen == transfer[t].status
           from == transfer[t].debit_from
<1>0. TypeOK
    BY DEF FreshInv, BalanceInv
<1>1. ASSUME NEW by, NEW status, NEW edits, NEW c, NEW to,
             job' = [job EXCEPT ![w] = Request(t, by, status, edits, c, to)]
      PROVE  /\ job'[w].transfer = t /\ job'[w].edits = edits /\ job'[w].content = c
             /\ job'[w].status = StatusToSave(seen, status)
             /\ job'[w].signer = Signer(by, status)
             /\ job'[w].credit_to = to /\ job'[w].missed = NoContent
    BY <1>0, <1>1 DEF Request, TypeOK
<1>2. ASSUME NEW status \in {"DRAFT", "SUBMITTED", "DELETED"}, NEW c \in Contents,
             NEW to \in Organizations, seen \in Editable \cup {Absent},
             job' = [job EXCEPT ![w] = Request(t, from, status, TRUE, c, to)]
      PROVE  job'[w].edits /\ EditIsFresh(job'[w])
    <2>1. StatusToSave(seen, status) = status
        BY DEF StatusToSave
    <2>2. status = "SUBMITTED" => from \in Signer(from, status)
        BY <1>0 DEF TypeOK, Rows, Signer
    <2> QED
        BY <1>1, <1>2, <2>1, <2>2 DEF EditIsFresh
<1>3. ASSUME NEW status \in {"DRAFT", "SUBMITTED"}, NEW c \in Contents,
             NEW to \in Organizations, ReceivePost(w, t, status, c, to)
      PROVE  job'[w].edits /\ EditIsFresh(job'[w])
    BY <1>2, <1>3 DEF ReceivePost
<1>4. ASSUME NEW status \in {"DRAFT", "SUBMITTED", "DELETED"}, NEW c \in Contents,
             NEW to \in Organizations, ReceiveEdit(w, t, status, c, to)
      PROVE  job'[w].edits /\ EditIsFresh(job'[w])
    <2>1. seen \in Editable
        BY <1>4 DEF ReceiveEdit, FreshInv, PagesAreFresh
    <2> QED
        BY <1>2, <1>4, <2>1 DEF ReceiveEdit
<1>5. ASSUME NEW by \in Organizations \cup {Government}, NEW status \in Statuses,
             ReceiveDecision(w, t, by, status)
      PROVE  ~job'[w].edits /\ DecisionIsFresh(job'[w])
    <2>1. Offers(t, seen, by, status)
        BY <1>5 DEF ReceiveDecision, FreshInv, PagesAreFresh
    <2>2. seen \in {"SUBMITTED", "APPROVED"} \cup Recommended
        BY <2>1 DEF Offers
    <2>3. /\ job'[w].transfer = t /\ ~job'[w].edits
          /\ job'[w].status = StatusToSave(seen, status)
          /\ job'[w].signer = Signer(by, status)
          /\ job'[w].credit_to = transfer[t].credit_to
        <3>1. job' = [job EXCEPT ![w] = Request(t, by, status, FALSE, NoContent,
                                               transfer[t].credit_to)]
            BY <1>5 DEF ReceiveDecision
        <3> HIDE DEF seen
        <3> QED
            BY <1>0, <3>1 DEF Request, TypeOK, seen
    <2>4. CASE by = from /\ status = "RESCINDED"
        BY <2>2, <2>3, <2>4 DEF DecisionIsFresh, StatusToSave
    <2>5. CASE by = transfer[t].credit_to /\ status \in {"RESCINDED", "DISAPPROVED"}
        BY <2>2, <2>3, <2>5 DEF DecisionIsFresh, StatusToSave
    <2>6. CASE by = transfer[t].credit_to /\ seen = "SUBMITTED" /\ status = "APPROVED"
        <3>1. by \in Signer(by, status) /\ StatusToSave(seen, status) = "APPROVED"
            BY <1>0, <2>6 DEF TypeOK, Rows, Signer, StatusToSave
        <3> QED
            BY <2>2, <2>3, <2>6, <3>1 DEF DecisionIsFresh
    <2>7. CASE by = Government
        <3>1. seen \in {"APPROVED"} \cup Recommended /\ status \in UnderReview
            BY <1>0, <2>1, <2>7, GovernmentAssumption
               DEF Offers, TypeOK, Rows, UnderReview, Recommended
        <3>2. StatusToSave(seen, status) = status
            BY <3>1 DEF StatusToSave, Recommended
        <3> QED
            BY <2>2, <2>3, <3>1, <3>2 DEF DecisionIsFresh
    <2> QED
        BY <2>1, <2>4, <2>5, <2>6, <2>7 DEF Offers
<1> QED
    BY <1>3, <1>4, <1>5 DEF Receive

\* What the one worker's commit writes.
LEMMA CommitIsFresh ==
    ASSUME Serial, FreshPages, FreshInv, NEW w \in Workers, Commit(w)
    PROVE  LET j == job[w]
               t == job[w].transfer IN
           /\ content'[t] \in Contents
           /\ ~j.edits => content'[t] = content[t]
           /\ \A o \in Organizations :
                  signed'[t][o] = IF o \in j.signer THEN content'[t] ELSE signed[t][o]
           /\ \A u \in Transfers \ {t} : signed'[u] = signed[u] /\ pages'[u] = pages[u]
           /\ pages'[t] = {j.status} \ Closed
<1> DEFINE j == job[w]
           t == job[w].transfer
<1>0. TypeOK
    BY DEF FreshInv, BalanceInv
<1>1. t \in Transfers /\ j \in Requests /\ j.phase = "saved"
    BY <1>0, JobType DEF Commit
<1>2. PICK c \in ContentToSave(j) : content' = [content EXCEPT ![t] = c] /\ Sign(j, c)
    BY DEF Commit
<1>3. content'[t] = c
    BY <1>0, <1>1, <1>2 DEF TypeOK
<1>4. j.edits => c \in Contents
    <2> HAVE j.edits
    <2>1. j.content \in [Keys -> Nat] /\ j.content \in Contents /\ j.missed = NoContent
        BY <1>1 DEF FreshInv, RequestsAreFresh, EditIsFresh, Requests
    <2>2. Plus(j.content, NoContent) = j.content
        BY <2>1 DEF Plus, NoContent
    <2> QED
        BY <1>2, <2>1, <2>2 DEF ContentToSave
<1>5. ~j.edits => c = content[t] /\ c \in Contents
    <2> HAVE ~j.edits
    <2>1. c = content[t]
        BY <1>2 DEF ContentToSave
    <2>2. transfer[t].status # Absent
        BY <1>1 DEF FreshInv, RequestsAreFresh, DecisionIsFresh, Absent, Recommended
    <2> QED
        BY <1>1, <2>1, <2>2 DEF FreshInv, ContentIsOffered
<1>6. /\ signed'[t] = [o \in Organizations |-> IF o \in j.signer THEN c ELSE signed[t][o]]
      /\ \A u \in Transfers \ {t} : signed'[u] = signed[u]
    BY <1>0, <1>1, <1>2 DEF Sign, TypeOK
<1>7. /\ pages'[t] = {j.status} \ Closed
      /\ \A u \in Transfers \ {t} : pages'[u] = pages[u]
    BY <1>0, <1>1 DEF Commit, Show, TypeOK
<1> QED
    BY <1>1, <1>3, <1>4, <1>5, <1>6, <1>7 DEF Requests

\* Every step of a single worker keeps the invariant.
LEMMA FreshStep ==
    ASSUME Serial, FreshPages, FreshInv, [Next]_vars
    PROVE  FreshInv'
<1>0. TypeOK /\ TypeOK' /\ BalanceInv'
    BY TypeStep, BalanceStep DEF FreshInv, BalanceInv
<1>1. CASE UNCHANGED vars
    BY <1>1, <1>0 DEF vars, FreshInv, PagesAreFresh, ContentIsOffered, RequestsAreFresh,
       EditIsFresh, DecisionIsFresh, SignedInTurn, LedgerAgreesWithStatus
<1>2. ASSUME NEW w \in Workers, UNCHANGED <<tables, pages>>,
             \A v \in Workers \ {w} : job'[v] = job[v],
             \/ \E t \in Transfers : Receive(w, t)
             \/ Save(w) /\ job'[w] = [job[w] EXCEPT !.phase = "saved"]
             \/ job'[w] = Idle
      PROVE  FreshInv'
    <2>1. UNCHANGED <<transfer, content, credited, debited, linked, signed, pages>>
        BY <1>2 DEF tables
    <2>2. job'[w].phase \in {"read", "saved"} =>
              IF job'[w].edits THEN EditIsFresh(job'[w]) ELSE DecisionIsFresh(job'[w])
        <3>1. CASE \E t \in Transfers : Receive(w, t)
            BY <3>1, ReceivedIsFresh
        <3>2. CASE Save(w) /\ job'[w] = [job[w] EXCEPT !.phase = "saved"]
            <4>1. job[w] \in Requests /\ job[w].phase = "read"
                BY <1>0, <3>2, JobType DEF Save
            <4>2. /\ job'[w].edits = job[w].edits /\ job'[w].content = job[w].content
                  /\ job'[w].status = job[w].status /\ job'[w].transfer = job[w].transfer
                  /\ job'[w].signer = job[w].signer /\ job'[w].missed = job[w].missed
                  /\ job'[w].credit_to = job[w].credit_to
                BY <3>2, <4>1 DEF Requests
            <4> QED
                BY <4>1, <4>2 DEF FreshInv, RequestsAreFresh, EditIsFresh, DecisionIsFresh
        <3>3. CASE job'[w] = Idle
            BY <3>3 DEF Idle
        <3> QED
            BY <1>2, <3>1, <3>2, <3>3
    <2>3. RequestsAreFresh'
        BY <1>2, <2>1, <2>2 DEF FreshInv, RequestsAreFresh, EditIsFresh, DecisionIsFresh
    <2> QED
        BY <1>0, <2>1, <2>3 DEF FreshInv, PagesAreFresh, ContentIsOffered, SignedInTurn,
           LedgerAgreesWithStatus
<1>3. ASSUME NEW w \in Workers, Commit(w)
      PROVE  FreshInv'
    <2> DEFINE j == job[w]
               t == job[w].transfer
               from == transfer[t].debit_from
    <2>1. t \in Transfers /\ j \in Requests /\ j.phase = "saved"
        BY <1>0, <1>3, JobType DEF Commit
    <2>2. /\ \A u \in Transfers : transfer'[u].debit_from = transfer[u].debit_from
          /\ \A u \in Transfers \ {t} : transfer'[u] = transfer[u] /\ content'[u] = content[u]
          /\ transfer'[t].status = j.status /\ transfer'[t].credit_to = j.credit_to
        BY <1>0, <1>3, CommitRows
    <2>3. IF j.edits THEN EditIsFresh(j) ELSE DecisionIsFresh(j)
        BY <2>1 DEF FreshInv, RequestsAreFresh
    <2>4. /\ content'[t] \in Contents
          /\ ~j.edits => content'[t] = content[t]
          /\ \A o \in Organizations :
                 signed'[t][o] = IF o \in j.signer THEN content'[t] ELSE signed[t][o]
          /\ \A u \in Transfers \ {t} : signed'[u] = signed[u] /\ pages'[u] = pages[u]
          /\ pages'[t] = {j.status} \ Closed
        BY <1>3, CommitIsFresh
    <2>5. PagesAreFresh'
        BY <2>2, <2>4 DEF FreshInv, PagesAreFresh
    <2>6. ContentIsOffered'
        BY <2>2, <2>4 DEF FreshInv, ContentIsOffered
    <2>7. RequestsAreFresh'
        BY <1>0, <1>3, CommitJobs DEF Serial, RequestsAreFresh, Idle
    <2>8. from \in Organizations /\ transfer[t].credit_to \in Organizations
        BY <1>0, <2>1 DEF TypeOK, Rows
    <2>9. SignedInTurn'
        <3>1. \A u \in Transfers \ {t} :
                  /\ transfer'[u].status \in UnderReview \cup {"SUBMITTED"}
                         => signed'[u][transfer'[u].debit_from] = content'[u]
                  /\ transfer'[u].status \in UnderReview
                         => signed'[u][transfer'[u].credit_to] = content'[u]
            BY <2>2, <2>4 DEF FreshInv, SignedInTurn
        <3>2. CASE j.edits
            <4>1. j.status \notin UnderReview
                BY <2>3, <3>2 DEF EditIsFresh, UnderReview, Recommended
            <4>2. j.status = "SUBMITTED" => signed'[t][from] = content'[t]
                BY <2>3, <2>4, <2>8, <3>2 DEF EditIsFresh
            <4> QED
                BY <2>2, <3>1, <4>1, <4>2 DEF SignedInTurn
        <3>3. CASE ~j.edits
            <4>1. /\ transfer[t].status \in UnderReview \cup {"SUBMITTED"}
                  /\ j.credit_to = transfer[t].credit_to
                BY <2>3, <3>3 DEF DecisionIsFresh, UnderReview, Recommended
            <4>2. signed'[t][from] = content'[t]
                BY <2>1, <2>4, <2>8, <3>3, <4>1 DEF FreshInv, SignedInTurn
            <4>3. j.status \in UnderReview => signed'[t][j.credit_to] = content'[t]
                <5>1. \/ j.status \notin UnderReview
                      \/ transfer[t].credit_to \in j.signer
                      \/ transfer[t].status \in UnderReview
                    BY <2>3, <3>3 DEF DecisionIsFresh, UnderReview, Recommended
                <5> QED
                    BY <2>1, <2>4, <2>8, <3>3, <4>1, <5>1 DEF FreshInv, SignedInTurn
            <4> QED
                BY <2>2, <3>1, <4>2, <4>3 DEF SignedInTurn
        <3> QED
            BY <3>2, <3>3
    <2>10. LedgerAgreesWithStatus'
        <3>1. transfer[t].status # "VALIDATED"
            BY <2>3 DEF EditIsFresh, DecisionIsFresh, Editable, Recommended, Absent
        <3>2. linked[t] = NoContent
            BY <2>1, <3>1 DEF FreshInv, LedgerAgreesWithStatus
        <3>3. \A u \in Transfers \ {t} : linked'[u] = linked[u]
            BY <1>0, <1>3, <2>1 DEF Commit, Record, TypeOK
        <3>4. linked'[t] = IF j.status = "VALIDATED" THEN content'[t] ELSE NoContent
            <4>1. CASE j.status # "VALIDATED"
                BY <1>3, <3>2, <4>1 DEF Commit, Record
            <4>2. CASE j.status = "VALIDATED"
                <5>1. linked'[t] = Plus(NoContent, content[t])
                    BY <1>0, <1>3, <2>1, <3>2, <4>2 DEF Commit, Record, TypeOK
                <5>2. content[t] \in [Keys -> Nat]
                    BY <1>0, <2>1 DEF TypeOK
                <5>3. Plus(NoContent, content[t]) = content[t]
                    BY <5>2 DEF Plus, NoContent
                <5>4. content'[t] = content[t]
                    BY <2>3, <2>4, <4>2 DEF EditIsFresh
                <5> QED
                    BY <4>2, <5>1, <5>3, <5>4
            <4> QED
                BY <4>1, <4>2
        <3> QED
            BY <2>2, <3>3, <3>4 DEF FreshInv, LedgerAgreesWithStatus
    <2> QED
        BY <1>0, <2>5, <2>6, <2>7, <2>9, <2>10 DEF FreshInv
<1> QED
    BY <1>0, <1>1, <1>2, <1>3, StepKinds

\* The status and the ledger never disagree about a notice.
THEOREM LedgerAgrees == Serial /\ FreshPages => (Spec => []LedgerAgreesWithStatus)
<1> SUFFICES ASSUME Serial, FreshPages PROVE Spec => []LedgerAgreesWithStatus
    OBVIOUS
<1>1. FreshInv /\ [Next]_vars => FreshInv'
    BY FreshStep
<1>2. FreshInv => LedgerAgreesWithStatus
    BY DEF FreshInv
<1> QED
    BY <1>1, <1>2, FreshInit, PTL DEF Spec

\* Whatever the government reviews or records was signed by both parties as it
\* stands.
THEOREM BothHaveSigned == Serial /\ FreshPages => (Spec => []BothSigned)
<1> SUFFICES ASSUME Serial, FreshPages PROVE Spec => []BothSigned
    OBVIOUS
<1>1. FreshInv /\ [Next]_vars => FreshInv'
    BY FreshStep
<1>2. FreshInv => BothSigned
    BY DEF FreshInv, SignedInTurn, BothSigned
<1> QED
    BY <1>1, <1>2, FreshInit, PTL DEF Spec

\* A commit that records is a move in the ledger; nothing else touches it.
LEMMA LedgerStep ==
    ASSUME Serial, FreshPages, FreshInv, [Next]_vars
    PROVE  [Ledger!Next]_(Ledger!vars)
<1>0. TypeOK
    BY DEF FreshInv, BalanceInv
<1>1. ASSUME NEW w \in Workers, Commit(w), job[w].status = "VALIDATED"
      PROVE  Ledger!Next
    <2> DEFINE j == job[w]
               t == job[w].transfer
               from == transfer[t].debit_from
    <2>1. t \in Transfers /\ j \in Requests /\ j.phase = "saved"
        BY <1>0, <1>1, JobType DEF Commit
    <2>2. from \in Organizations /\ j.credit_to \in Organizations
        BY <1>0, <2>1 DEF TypeOK, Rows, Requests
    <2>3. DecisionIsFresh(j)
        BY <1>1, <2>1 DEF FreshInv, RequestsAreFresh, EditIsFresh
    <2>4. linked[t] = NoContent /\ content[t] \in Contents
        BY <2>1, <2>3
           DEF FreshInv, LedgerAgreesWithStatus, ContentIsOffered, DecisionIsFresh,
               Recommended, Absent
    <2>5. content[t] \in [Keys -> Nat]
        BY <1>0, <2>1 DEF TypeOK
    <2>6. \A k \in Keys : content[t][k] <= credited[from][k] - debited[from][k]
        <3>1. \A k \in Keys : content[t][k] > 0 => content[t][k] <= Balance(from, k)
            BY <1>1, <2>1 DEF FreshInv, BalanceInv, SavedIsCovered, Alone, Covered
        <3>2. \A k \in Keys : Balance(from, k) >= 0
            BY <2>2 DEF FreshInv, BalanceInv, AloneIsCovered, Alone
        <3>3. \A k \in Keys : credited[from][k] \in Nat /\ debited[from][k] \in Nat
            BY <1>0, <2>2 DEF TypeOK
        <3> QED
            BY <2>5, <3>1, <3>2, <3>3 DEF Balance
    <2>7. /\ credited' = [credited EXCEPT ![j.credit_to] = Plus(@, content[t])]
          /\ debited' = [debited EXCEPT ![from] = Plus(@, content[t])]
          /\ linked' = [linked EXCEPT ![t] = Plus(@, content[t])]
        BY <1>1 DEF Commit, Record
    <2>8. Plus(linked[t], content[t]) = content[t]
        BY <2>4, <2>5 DEF Plus, NoContent
    <2>9. Ledger!Move(t, from, j.credit_to, content[t])
        <3>1. linked[t] = Ledger!NoAmount
            BY <2>4 DEF NoContent, Ledger!NoAmount
        <3> HIDE DEF j, t, from
        <3>2. credited' = Ledger!Plus(credited, j.credit_to, content[t])
            BY <1>0, <2>2, <2>7 DEF Plus, Ledger!Plus, TypeOK
        <3>3. debited' = Ledger!Plus(debited, from, content[t])
            BY <1>0, <2>2, <2>7 DEF Plus, Ledger!Plus, TypeOK
        <3>4. linked' = [linked EXCEPT ![t] = content[t]]
            BY <1>0, <2>1, <2>7, <2>8 DEF TypeOK
        <3> QED
            BY <2>6, <3>1, <3>2, <3>3, <3>4 DEF Ledger!Move
    <2> QED
        BY <2>1, <2>2, <2>4, <2>9 DEF Ledger!Next
<1>2. ASSUME NEW w \in Workers, Commit(w), job[w].status # "VALIDATED"
      PROVE  UNCHANGED Ledger!vars
    BY <1>2 DEF Commit, Record, Ledger!vars
<1>3. UNCHANGED tables => UNCHANGED Ledger!vars
    BY DEF tables, Ledger!vars
<1>4. UNCHANGED vars => UNCHANGED tables
    BY DEF vars, tables
<1>5. UNCHANGED <<tables, pages>> => UNCHANGED tables
    OBVIOUS
<1> QED
    BY <1>0, <1>1, <1>2, <1>3, <1>4, <1>5, StepKinds

\* Credit transfers implement the ledger.
THEOREM ImplementsLedger == Serial /\ FreshPages => (Spec => LedgerSpec)
<1> SUFFICES ASSUME Serial, FreshPages PROVE Spec => LedgerSpec
    OBVIOUS
<1>1. Init => Ledger!Init
    BY DEF Init, Ledger!Init, NoContent, Ledger!NoAmount
<1>2. FreshInv /\ [Next]_vars => FreshInv'
    BY FreshStep
<1>3. FreshInv /\ [Next]_vars => [Ledger!Next]_(Ledger!vars)
    BY LedgerStep
<1> QED
    BY <1>1, <1>2, <1>3, FreshInit, PTL DEF Spec, LedgerSpec, Ledger!Spec


-----------------------------------------------------------------------------
\* What the pages tell

\* Besides the rows of the table a step may only add to the history what it commits.
LEMMA HistoryStepKinds ==
    ASSUME [HistoryNext]_historyVars
    PROVE  /\ [Next]_vars
           /\ \/ UNCHANGED <<transfer, content, signed, newest>>
              \/ \E w \in Workers : Commit(w) /\ AddRow(job[w])
<1>1. CASE UNCHANGED historyVars
    BY <1>1 DEF historyVars, vars
<1>2. ASSUME NEW w \in Workers, Commit(w), AddRow(job[w])
      PROVE  Next
    BY <1>2 DEF Next
<1>3. ASSUME NEW w \in Workers, UNCHANGED newest,
             \/ \E t \in Transfers : Receive(w, t)
             \/ Save(w)
             \/ Refuse(w)
      PROVE  Next /\ UNCHANGED <<transfer, content, signed, newest>>
    <2>1. CASE \E t \in Transfers : Receive(w, t)
        <3>1. UNCHANGED <<transfer, content, signed>>
            BY <2>1 DEF Receive, ReceivePost, ReceiveEdit, ReceiveDecision
        <3> QED
            BY <1>3, <2>1, <3>1 DEF Next
    <2>2. CASE Save(w) \/ Refuse(w)
        BY <1>3, <2>2 DEF Next, Save, Refuse
    <2> QED
        BY <1>3, <2>1, <2>2
<1> QED
    BY <1>1, <1>2, <1>3 DEF HistoryNext

\* The kinds of rows by age, after one more row.
LEMMA RowAdded ==
    ASSUME NEW CONSTANT t \in Transfers, NEW CONSTANT j, j.transfer = t, AddRow(j),
           newest = [u \in Transfers |-> newest[u]]
    PROVE  LET k == KindOfRow(j) IN
           /\ newest' = [u \in Transfers |-> newest'[u]]
           /\ \A u \in Transfers \ {t} : newest'[u] = newest[u]
           /\ k = "other" => newest' = newest
           /\ k # "other" =>
                  /\ Has(t, k)'
                  /\ \A l : l # k => /\ Has(t, l)' <=> Has(t, l)
                                     /\ Has(t, l) => Later(t, k, l)'
                                     /\ ~Later(t, l, k)'
<1> DEFINE k == KindOfRow(j)
           others == {p \in newest[t] : p[1] # k /\ p[2] # k}
           now == others \cup {<<k, k>>} \cup {<<k, p[2]>> : p \in others}
<1>1. newest' = IF k = "other" THEN newest ELSE [newest EXCEPT ![t] = now]
    BY Zenon DEF AddRow
<1> HIDE DEF k
<1>2. k # "other" => newest'[t] = now
    BY <1>1
<1>3. /\ newest' = [u \in Transfers |-> newest'[u]]
      /\ \A u \in Transfers \ {t} : newest'[u] = newest[u]
      /\ k = "other" => newest' = newest
    BY <1>1
<1>4. ASSUME NEW CONSTANT l, l # k
      PROVE  /\ <<l, l>> \in now <=> <<l, l>> \in newest[t]
             /\ <<l, l>> \in newest[t] => <<k, l>> \in now
             /\ <<l, k>> \notin now
    <2>1. <<l, l>> \in others <=> <<l, l>> \in newest[t]
        BY <1>4
    <2>2. <<l, l>> \notin {<<k, k>>} \cup {<<k, p[2]>> : p \in others}
        BY <1>4
    <2>3. <<l, l>> \in newest[t] => <<k, l>> \in now
        <3> SUFFICES ASSUME <<l, l>> \in newest[t] PROVE <<k, l>> \in now
            OBVIOUS
        <3>1. <<l, l>> \in others /\ <<k, <<l, l>>[2]>> = <<k, l>>
            BY <2>1
        <3> QED
            BY <3>1
    <2>4. <<l, k>> \notin now
        BY <1>4
    <2> QED
        BY <2>1, <2>2, <2>3, <2>4
<1>5. <<k, k>> \in now
    OBVIOUS
<1> HIDE DEF now, others
<1>6. k # "other" =>
          /\ Has(t, k)'
          /\ \A l : l # k => /\ Has(t, l)' <=> Has(t, l)
                             /\ Has(t, l) => Later(t, k, l)'
                             /\ ~Later(t, l, k)'
    BY <1>2, <1>4, <1>5 DEF Has, Later
<1> QED
    BY <1>3, <1>6 DEF k

\* While the seller has a notice no signature of it is shown, and once it is
\* rescinded a former acceptance is not; while the buyer has it, only the seller's.
ShownInTurn(t) ==
    /\ transfer[t].status \in Editable \cup {Absent, "DELETED"} =>
           ~ShowsSubmission(t) /\ (Has(t, "accepted") => Has(t, "rescinded"))
    /\ transfer[t].status = "SUBMITTED" => ~ShowsAcceptance(t)

HistoryInv ==
    /\ FreshInv /\ newest = [t \in Transfers |-> newest[t]]
    /\ SignedAsShown /\ \A t \in Transfers : ShownInTurn(t)

LEMMA HistoryInvInit == HistoryInit => HistoryInv
<1> SUFFICES ASSUME HistoryInit PROVE HistoryInv
    OBVIOUS
<1>1. FreshInv
    BY FreshInit DEF HistoryInit
<1>2. newest = [t \in Transfers |-> {}]
    BY DEF HistoryInit
<1>3. \A t \in Transfers : \A l : ~Has(t, l)
    BY <1>2 DEF Has
<1>4. \A t \in Transfers : ~ShowsSubmission(t) /\ ~ShowsAcceptance(t)
    BY <1>3 DEF ShowsSubmission, ShowsAcceptance
<1> QED
    BY <1>1, <1>2, <1>3, <1>4 DEF HistoryInv, SignedAsShown, SignaturesShown, ShownInTurn

\* What a commit of the seller's form leaves on the page.
LEMMA EditShown ==
    ASSUME Serial, FreshPages, HistoryInv, NEW w \in Workers, Commit(w), FreshInv',
           NEW CONSTANT j, j = job[w], AddRow(j), j.edits, NEW CONSTANT t, t = j.transfer
    PROVE  ShownInTurn(t)' /\ \A o \in SignaturesShown(t)' : signed'[t][o] = content'[t]
<1>1. TypeOK /\ t \in Transfers /\ j \in Requests /\ j.phase = "saved"
    BY JobType DEF Commit, HistoryInv, FreshInv, BalanceInv
<1>2. EditIsFresh(j)
    BY <1>1 DEF HistoryInv, FreshInv, RequestsAreFresh
<1>3. /\ transfer'[t].status = j.status /\ transfer'[t].debit_from = transfer[t].debit_from
      /\ transfer'[t].credit_to = j.credit_to
    BY <1>1, CommitRows
<1>4. ~ShowsSubmission(t) /\ (Has(t, "accepted") => Has(t, "rescinded"))
    BY <1>1, <1>2 DEF HistoryInv, ShownInTurn, EditIsFresh
<1>5. /\ KindOfRow(j) = "other" => newest' = newest
      /\ KindOfRow(j) # "other" =>
             /\ Has(t, KindOfRow(j))'
             /\ \A l : l # KindOfRow(j) => /\ Has(t, l)' <=> Has(t, l)
                                           /\ Has(t, l) => Later(t, KindOfRow(j), l)'
                                           /\ ~Later(t, l, KindOfRow(j))'
    BY <1>1, RowAdded DEF HistoryInv
<1>6. CASE j.status = "SUBMITTED"
    <2>1. KindOfRow(j) = "submitted"
        BY <1>6 DEF KindOfRow
    <2>2. Has(t, "accepted")' => Has(t, "rescinded")' /\ Later(t, "submitted", "accepted")'
        BY <1>4, <1>5, <2>1
    <2>3. ~ShowsAcceptance(t)'
        BY <2>2 DEF ShowsAcceptance
    <2>4. ShownInTurn(t)'
        BY <1>3, <1>6, <2>3 DEF ShownInTurn, Editable, Absent
    <2>5. signed'[t][transfer'[t].debit_from] = content'[t]
        BY <1>1, <1>3, <1>6 DEF FreshInv, SignedInTurn
    <2> QED
        BY <2>3, <2>4, <2>5 DEF SignaturesShown
<1>7. CASE j.status \in {"DRAFT", "DELETED"}
    <2>1. KindOfRow(j) = "other"
        BY <1>7 DEF KindOfRow
    <2>2. newest' = newest
        BY <1>5, <2>1
    <2>3. ~ShowsSubmission(t)' /\ (Has(t, "accepted")' => Has(t, "rescinded")')
        BY <1>4, <2>2 DEF ShowsSubmission, Has, Later
    <2>4. ShownInTurn(t)'
        BY <1>3, <1>7, <2>3 DEF ShownInTurn
    <2> QED
        BY <2>3, <2>4 DEF SignaturesShown, ShowsAcceptance
<1> QED
    BY <1>2, <1>6, <1>7 DEF EditIsFresh

\* What a commit of a decision or of a comment leaves on the page.
LEMMA DecisionShown ==
    ASSUME Serial, FreshPages, HistoryInv, NEW w \in Workers, Commit(w), FreshInv',
           NEW CONSTANT j, j = job[w], AddRow(j), ~j.edits, NEW CONSTANT t, t = j.transfer
    PROVE  ShownInTurn(t)' /\ \A o \in SignaturesShown(t)' : signed'[t][o] = content'[t]
<1>1. TypeOK /\ t \in Transfers /\ j \in Requests /\ j.phase = "saved"
    BY JobType DEF Commit, HistoryInv, FreshInv, BalanceInv
<1>2. DecisionIsFresh(j)
    BY <1>1 DEF HistoryInv, FreshInv, RequestsAreFresh
<1>3. /\ transfer'[t].status = j.status /\ transfer'[t].debit_from = transfer[t].debit_from
      /\ transfer'[t].credit_to = transfer[t].credit_to
    BY <1>1, <1>2, CommitRows DEF DecisionIsFresh
<1>4. /\ KindOfRow(j) = "other" => newest' = newest
      /\ KindOfRow(j) # "other" =>
             /\ Has(t, KindOfRow(j))'
             /\ \A l : l # KindOfRow(j) => /\ Has(t, l)' <=> Has(t, l)
                                           /\ Has(t, l) => Later(t, KindOfRow(j), l)'
                                           /\ ~Later(t, l, KindOfRow(j))'
    BY <1>1, RowAdded DEF HistoryInv
<1>5. CASE j.status \in UnderReview
    <2>1. ShownInTurn(t)'
        BY <1>3, <1>5 DEF ShownInTurn, UnderReview, Editable, Absent, Recommended
    <2>2. /\ signed'[t][transfer'[t].debit_from] = content'[t]
          /\ signed'[t][transfer'[t].credit_to] = content'[t]
        BY <1>1, <1>3, <1>5 DEF FreshInv, SignedInTurn
    <2> QED
        BY <2>1, <2>2 DEF SignaturesShown
<1>6. CASE j.status \in {"RESCINDED", "RESCIND_PRE_APPROVAL"}
    <2>1. KindOfRow(j) = "rescinded"
        BY <1>6 DEF KindOfRow
    <2>2. Has(t, "rescinded")' /\ (Has(t, "submitted")' => Later(t, "rescinded", "submitted")')
        BY <1>4, <2>1
    <2>3. ~ShowsSubmission(t)'
        BY <2>2 DEF ShowsSubmission
    <2>4. ShownInTurn(t)'
        BY <1>3, <1>6, <2>2, <2>3 DEF ShownInTurn
    <2> QED
        BY <2>3, <2>4 DEF SignaturesShown, ShowsAcceptance
<1>7. CASE j.status = "DISAPPROVED"
    <2>1. KindOfRow(j) = "other"
        BY <1>7 DEF KindOfRow
    <2>2. newest' = newest
        BY <1>4, <2>1
    <2>3. SignaturesShown(t)' = SignaturesShown(t)
        BY <1>3, <2>2 DEF SignaturesShown, ShowsSubmission, ShowsAcceptance, Has, Later
    <2>4. \A o \in SignaturesShown(t) : o \in Organizations /\ signed[t][o] = content[t]
        BY <1>1 DEF HistoryInv, SignedAsShown, SignaturesShown
    <2>5. /\ content'[t] = content[t]
          /\ \A o \in Organizations : signed'[t][o] = IF o \in j.signer THEN content'[t] ELSE signed[t][o]
        BY CommitIsFresh DEF HistoryInv
    <2>6. ShownInTurn(t)'
        BY <1>3, <1>7 DEF ShownInTurn, Editable, Absent
    <2> QED
        BY <2>3, <2>4, <2>5, <2>6
<1> QED
    BY <1>2, <1>5, <1>6, <1>7 DEF DecisionIsFresh, UnderReview

LEMMA HistoryInvStep ==
    ASSUME Serial, FreshPages, HistoryInv, [HistoryNext]_historyVars
    PROVE  HistoryInv'
<1>1. FreshInv'
    BY HistoryStepKinds, FreshStep DEF HistoryInv
<1>2. CASE UNCHANGED <<transfer, content, signed, newest>>
    BY <1>1, <1>2 DEF HistoryInv, SignedAsShown, ShownInTurn, SignaturesShown, ShowsSubmission,
       ShowsAcceptance, Has, Later
<1>3. ASSUME NEW w \in Workers, NEW CONSTANT j, j = job[w], NEW CONSTANT t, t = j.transfer,
             Commit(w), AddRow(j)
      PROVE  HistoryInv'
    <2>1. TypeOK /\ t \in Transfers
        BY <1>3, JobType DEF Commit, HistoryInv, FreshInv, BalanceInv
    <2>2. ShownInTurn(t)' /\ \A o \in SignaturesShown(t)' : signed'[t][o] = content'[t]
        BY <1>1, <1>3, EditShown, DecisionShown
    <2>3. /\ newest' = [u \in Transfers |-> newest'[u]]
          /\ \A u \in Transfers \ {t} : newest'[u] = newest[u]
        BY <1>3, <2>1, RowAdded DEF HistoryInv
    <2>4. \A u \in Transfers \ {t} :
              transfer'[u] = transfer[u] /\ content'[u] = content[u] /\ signed'[u] = signed[u]
        BY <1>3, <2>1, CommitRows, CommitIsFresh DEF HistoryInv
    <2>5. ASSUME NEW u \in Transfers \ {t}
          PROVE  ShownInTurn(u)' /\ \A o \in SignaturesShown(u)' : signed'[u][o] = content'[u]
        BY <2>3, <2>4 DEF HistoryInv, SignedAsShown, ShownInTurn, SignaturesShown, ShowsSubmission,
           ShowsAcceptance, Has, Later
    <2>6. \A u \in Transfers :
              ShownInTurn(u)' /\ \A o \in SignaturesShown(u)' : signed'[u][o] = content'[u]
        BY <2>2, <2>5
    <2> QED
        BY <1>1, <2>3, <2>6 DEF HistoryInv, SignedAsShown
<1> QED
    <2>1. CASE UNCHANGED <<transfer, content, signed, newest>>
        BY <1>2, <2>1
    <2>2. CASE \E w \in Workers : Commit(w) /\ AddRow(job[w])
        <3>1. PICK w \in Workers : Commit(w) /\ AddRow(job[w])
            BY <2>2
        <3> QED
            BY <1>3, <3>1
    <2> QED
        BY <2>1, <2>2, HistoryStepKinds

\* The signatures that the details page shows are of the content as it stands.
THEOREM SignaturesAreReal == Serial /\ FreshPages => (HistorySpec => []SignedAsShown)
<1> SUFFICES ASSUME Serial, FreshPages PROVE HistorySpec => []SignedAsShown
    OBVIOUS
<1>1. HistoryInv /\ [HistoryNext]_historyVars => HistoryInv'
    BY HistoryInvStep
<1>2. HistoryInv => SignedAsShown
    BY DEF HistoryInv
<1> QED
    BY <1>1, <1>2, HistoryInvInit, PTL DEF HistorySpec

\* Whoever a notice waits for is reminded of it, for every notice and status.
THEOREM NoNoticeForgotten == HistorySpec => []NoticeRemembered
<1>1. ASSUME TypeOK PROVE NoticeRemembered
    <2> SUFFICES ASSUME NEW t \in Transfers, transfer[t].status \notin Closed \cup {Absent}
                 PROVE  /\ \E by \in Organizations \cup {Government} :
                               Asked(t, by) \/ FormOffers(t, by, "DELETED")
                        /\ \A by \in Organizations \cup {Government} : Asked(t, by) => Reminded(by, t)
        BY DEF NoticeRemembered
    <2> DEFINE status == transfer[t].status
               from == transfer[t].debit_from
               to == transfer[t].credit_to
    <2>1. from \in Organizations /\ to \in Organizations /\ from # Government /\ to # Government
        BY <1>1, GovernmentAssumption DEF TypeOK, Rows
    <2>2. status \in Editable \cup {"SUBMITTED", "APPROVED"} \cup Recommended
        BY <1>1 DEF TypeOK, Rows, Statuses, Closed, Editable, Recommended
    <2> HIDE DEF status, from, to
    <2>3. CASE status \in Editable
        <3>1. FormOffers(t, from, "DELETED")
            BY <2>1, <2>3 DEF FormOffers, OpensForm, Visible, Editable, Absent, status, from
        <3>2. \A by, new : ~Offers(t, status, by, new)
            BY <2>3 DEF Offers, Editable, Recommended
        <3> QED
            BY <2>1, <3>1, <3>2 DEF Asked, status
    <2>4. CASE status = "SUBMITTED"
        <3>1. Asked(t, to)
            <4>1. Offers(t, status, to, "APPROVED") /\ "APPROVED" \in Statuses \ {"RESCINDED", status}
                BY <2>4 DEF Offers, Statuses, to
            <4> QED
                BY <2>4, <4>1 DEF Asked, Visible, OpensForm, Editable, Absent, to, status
        <3>2. \A by : \A new \in Statuses \ {"RESCINDED", status} : Offers(t, status, by, new) => by = to
            BY <2>4 DEF Offers, Recommended, to
        <3>3. Reminded(to, t)
            <4>1. Visible(t, to)
                BY <2>4 DEF Visible, Absent, to, status
            <4>2. CountedAs(to, status) = "SUBMITTED" /\ Label(to, status) = "submitted to transfer partner"
                BY <2>4 DEF CountedAs, Label, Recommended
            <4>3. [counts |-> {"SUBMITTED"}, lists |-> {"submitted to transfer partner"}] \in SupplierBanners
                BY DEF SupplierBanners
            <4> QED
                BY <2>1, <4>1, <4>2, <4>3 DEF Reminded, status
        <3> QED
            BY <2>1, <3>1, <3>2, <3>3 DEF Asked, status
    <2>5. CASE status \in {"APPROVED"} \cup Recommended
        <3>2. \E new \in Statuses \ {"RESCINDED", status} : Offers(t, status, Government, new)
            <4>1. CASE status = "APPROVED"
                <5>1. /\ Offers(t, status, Government, "RECOMMEND_APPROVAL")
                      /\ "RECOMMEND_APPROVAL" \in Statuses \ {"RESCINDED", status}
                    BY <4>1 DEF Offers, Recommended, Statuses
                <5> QED
                    BY <5>1
            <4>2. CASE status \in Recommended
                <5>1. /\ Offers(t, status, Government, "APPROVED")
                      /\ "APPROVED" \in Statuses \ {"RESCINDED", status}
                    BY <4>2 DEF Offers, Recommended, Statuses
                <5> QED
                    BY <5>1
            <4> QED
                BY <2>5, <4>1, <4>2
        <3>3. Visible(t, Government)
            BY <2>5 DEF Visible, Recommended, Absent, status
        <3>4. Asked(t, Government)
            BY <2>1, <3>2, <3>3 DEF Asked, OpensForm, status, from
        <3>5. \A by : \A new \in Statuses \ {"RESCINDED", status} :
                  Offers(t, status, by, new) => by = Government
            BY <2>5 DEF Offers, Recommended
        <3>6. Reminded(Government, t)
            <4>1. CASE status = "APPROVED"
                <5>1. CountedAs(Government, status) = "APPROVED"
                      /\ Label(Government, status) = "submitted to government"
                    BY <4>1 DEF CountedAs, Label, Recommended
                <5>2. [counts |-> {"APPROVED"}, lists |-> {"submitted to government"}] \in GovernmentBanners
                    BY DEF GovernmentBanners
                <5> QED
                    BY <3>3, <5>1, <5>2 DEF Reminded, status
            <4>2. CASE status \in Recommended
                <5>1. CountedAs(Government, status) = status /\ Label(Government, status) = status
                    <6>1. CASE status = "RECOMMEND_APPROVAL"
                        BY <6>1 DEF CountedAs, Label, Recommended
                    <6>2. CASE status = "RECOMMEND_REJECTION"
                        BY <6>2 DEF CountedAs, Label, Recommended
                    <6> QED
                        BY <4>2, <6>1, <6>2 DEF Recommended
                <5>2. [counts |-> Recommended, lists |-> Recommended] \in GovernmentBanners
                    BY DEF GovernmentBanners
                <5> QED
                    BY <3>3, <4>2, <5>1, <5>2 DEF Reminded, status
            <4> QED
                BY <2>5, <4>1, <4>2
        <3> QED
            BY <3>4, <3>5, <3>6 DEF Asked, status
    <2> QED
        BY <2>2, <2>3, <2>4, <2>5
<1>2. HistoryInit => Init
    BY DEF HistoryInit
<1>3. [HistoryNext]_historyVars => [Next]_vars
    BY HistoryStepKinds
<1> QED
    BY <1>1, <1>2, <1>3, TypeInit, TypeStep, PTL DEF HistorySpec
=============================================================================
