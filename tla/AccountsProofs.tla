--------------------------- MODULE AccountsProofs ---------------------------
(***************************************************************************)
(* What holds of transfers and agreements on one credit_transaction table, *)
(* for every number of notices, agreements and workers, pages of any age   *)
(* and saves that end or do not.                                           *)
(***************************************************************************)
EXTENDS Accounts, TLAPS

-----------------------------------------------------------------------------
\* What the steps need of the types

\* The rows that the ledger is posted from, and the requests that post.
TransfersTyped ==
    /\ transfer \in [Transfers -> T!Rows]
    /\ content \in [Transfers -> [Keys -> Nat]]
    /\ linked \in [Transfers -> [Keys -> Nat]]
    /\ job \in [Workers -> T!Requests \cup {T!Idle}]

AgreementsTyped ==
    /\ agreement \in [Agreements -> A!Rows]
    /\ adjustment \in [Agreements -> [Keys -> Nat]]
    /\ agreementJob \in [Workers -> A!Requests \cup {A!Idle}]

LedgerTyped ==
    /\ credited \in [Organizations -> [Keys -> Nat]]
    /\ debited \in [Organizations -> [Keys -> Nat]]

Typed == TransfersTyped /\ AgreementsTyped /\ LedgerTyped

\* No content is an amount of zero for every key.
LEMMA NoContentType == T!NoContent \in [Keys -> Nat] /\ A!NoContent \in [Keys -> Nat]
    BY DEF T!NoContent, A!NoContent

\* A request about a transfer is a request.
LEMMA TransferRequest ==
    ASSUME TransfersTyped, NEW t \in Transfers, NEW by, NEW status \in T!Statuses,
           NEW edits \in BOOLEAN, NEW c \in [Keys -> Nat], NEW to \in Organizations
    PROVE  /\ T!Request(t, by, status, edits, c, to) \in T!Requests
           /\ T!Request(t, by, status, edits, c, to).phase = "read"
<1>1. T!StatusToSave(transfer[t].status, status) \in T!Statuses
    BY DEF T!StatusToSave, T!Statuses
<1>2. T!Signer(by, status) \in SUBSET Organizations
    BY DEF T!Signer
<1> QED
    BY <1>1, <1>2, NoContentType DEF T!Request, T!Requests

\* A request about an agreement is a request.
LEMMA AgreementRequest ==
    ASSUME AgreementsTyped, NEW a \in Agreements, A!Visible(a), NEW asked \in A!Statuses,
           NEW type \in Types, NEW edits \in BOOLEAN, NEW c \in [Keys -> Nat],
           NEW files \in BOOLEAN
    PROVE  A!Request(a, asked, type, edits, c, files) \in A!Requests
<1>1. agreement[a].status \in A!Statuses
    BY DEF AgreementsTyped, A!Rows, A!Visible
<1>2. A!StatusToSave(agreement[a].status, asked) \in A!Statuses
    BY <1>1 DEF A!StatusToSave
<1> QED
    BY <1>2, NoContentType DEF A!Request, A!Requests

-----------------------------------------------------------------------------
\* The steps of transfers

transferTables == <<transfer, content, linked>>
ledger == <<credited, debited>>

\* A request about a transfer that is received changes only what its worker serves.
LEMMA TransferReceived ==
    ASSUME Typed, NEW w \in Workers, NEW t \in Transfers, T!Receive(w, t)
    PROVE  /\ UNCHANGED <<transferTables, ledger>>
           /\ \E r \in T!Requests : r.phase = "read" /\ job' = [job EXCEPT ![w] = r]
<1> USE AmountsAssumption
<1>1. ASSUME NEW status \in {"DRAFT", "SUBMITTED"}, NEW c \in Contents,
             NEW to \in Organizations, T!ReceivePost(w, t, status, c, to)
      PROVE  /\ UNCHANGED <<transferTables, ledger>>
             /\ \E r \in T!Requests : r.phase = "read" /\ job' = [job EXCEPT ![w] = r]
    <2> DEFINE r == T!Request(t, transfer[t].debit_from, status, TRUE, c, to)
    <2>1. r \in T!Requests /\ r.phase = "read"
        <3>1. status \in T!Statuses /\ c \in [Keys -> Nat] /\ TransfersTyped
            BY DEF T!Statuses, Typed
        <3>2. r \in T!Requests
            BY <3>1, TransferRequest
        <3>3. r.phase = "read"
            BY DEF T!Request
        <3> QED
            BY <3>2, <3>3
    <2>2. job' = [job EXCEPT ![w] = r]
        BY <1>1 DEF T!ReceivePost
    <2>3. UNCHANGED <<transferTables, ledger>>
        BY <1>1 DEF T!ReceivePost, transferTables, ledger
    <2> HIDE DEF r
    <2> QED
        BY <2>1, <2>2, <2>3
<1>2. ASSUME NEW status \in {"DRAFT", "SUBMITTED", "DELETED"}, NEW c \in Contents,
             NEW to \in Organizations, T!ReceiveEdit(w, t, status, c, to)
      PROVE  /\ UNCHANGED <<transferTables, ledger>>
             /\ \E r \in T!Requests : r.phase = "read" /\ job' = [job EXCEPT ![w] = r]
    <2> DEFINE r == T!Request(t, transfer[t].debit_from, status, TRUE, c, to)
    <2>1. r \in T!Requests /\ r.phase = "read"
        <3>1. status \in T!Statuses /\ c \in [Keys -> Nat] /\ TransfersTyped
            BY DEF T!Statuses, Typed
        <3>2. r \in T!Requests
            BY <3>1, TransferRequest
        <3>3. r.phase = "read"
            BY DEF T!Request
        <3> QED
            BY <3>2, <3>3
    <2>2. job' = [job EXCEPT ![w] = r]
        BY <1>2 DEF T!ReceiveEdit
    <2>3. UNCHANGED <<transferTables, ledger>>
        BY <1>2 DEF T!ReceiveEdit, transferTables, ledger
    <2> HIDE DEF r
    <2> QED
        BY <2>1, <2>2, <2>3
<1>3. ASSUME NEW by \in Organizations \cup {T!Government}, NEW status \in T!Statuses,
             T!ReceiveDecision(w, t, by, status)
      PROVE  /\ UNCHANGED <<transferTables, ledger>>
             /\ \E r \in T!Requests : r.phase = "read" /\ job' = [job EXCEPT ![w] = r]
    <2> DEFINE r == T!Request(t, by, status, FALSE, T!NoContent, transfer[t].credit_to)
    <2>1. transfer[t].credit_to \in Organizations
        BY DEF Typed, TransfersTyped, T!Rows
    <2>2. r \in T!Requests /\ r.phase = "read"
        BY <2>1, TransferRequest, NoContentType DEF Typed
    <2>3. job' = [job EXCEPT ![w] = r]
        BY <1>3 DEF T!ReceiveDecision
    <2> HIDE DEF r
    <2> QED
        BY <1>3, <2>2, <2>3 DEF T!ReceiveDecision, transferTables, ledger
<1> QED
    BY <1>1, <1>2, <1>3 DEF T!Receive

\* What a commit about a transfer leaves of the notices and the jobs.
LEMMA TransferCommitted ==
    ASSUME Typed, NEW w \in Workers, T!Commit(w)
    PROVE  LET t == job[w].transfer IN
           /\ job[w] \in T!Requests /\ t \in Transfers
           /\ transfer' \in [Transfers -> T!Rows]
           /\ \A u \in Transfers : transfer'[u].debit_from = transfer[u].debit_from
           /\ content' \in [Transfers -> [Keys -> Nat]]
           /\ \A u \in Transfers \ {t} : content'[u] = content[u]
           /\ job' \in [Workers -> T!Requests \cup {T!Idle}]
           /\ job'[w] = T!Idle
           /\ \A v \in Workers \ {w} :
                  /\ job'[v].phase = job[v].phase
                  /\ job[v].phase = "saved" => job'[v] = job[v]
<1> DEFINE j == job[w]
           t == job[w].transfer
<1>1. j \in T!Requests /\ t \in Transfers
    BY DEF T!Commit, Typed, TransfersTyped, T!Idle, T!Requests
<1>2. /\ transfer' \in [Transfers -> T!Rows]
      /\ \A u \in Transfers : transfer'[u].debit_from = transfer[u].debit_from
    <2>1. j.status \in T!Statuses /\ j.credit_to \in Organizations
        BY <1>1 DEF T!Requests
    <2>2. transfer[t] \in T!Rows
        BY <1>1 DEF Typed, TransfersTyped
    <2>3. [transfer[t] EXCEPT !.status = j.status, !.credit_to = j.credit_to] \in T!Rows
        BY <2>1, <2>2 DEF T!Rows
    <2>4. transfer' = [transfer EXCEPT ![t] =
              [transfer[t] EXCEPT !.status = j.status, !.credit_to = j.credit_to]]
        BY <1>1 DEF T!Commit, Typed, TransfersTyped, T!Rows
    <2>5. [transfer[t] EXCEPT !.status = j.status, !.credit_to = j.credit_to].debit_from
              = transfer[t].debit_from
        BY <2>2 DEF T!Rows
    <2> HIDE DEF j, t
    <2>6. transfer' \in [Transfers -> T!Rows]
        BY <1>1, <2>3, <2>4 DEF Typed, TransfersTyped
    <2>7. \A u \in Transfers : transfer'[u].debit_from = transfer[u].debit_from
        BY <1>1, <2>4, <2>5 DEF Typed, TransfersTyped
    <2> QED
        BY <2>6, <2>7
<1>3. /\ content' \in [Transfers -> [Keys -> Nat]]
      /\ \A u \in Transfers \ {t} : content'[u] = content[u]
    <2>1. PICK c \in T!ContentToSave(j) : content' = [content EXCEPT ![t] = c]
        BY DEF T!Commit
    <2>2. c \in [Keys -> Nat]
        BY <1>1, <2>1 DEF T!ContentToSave, T!Plus, Typed, TransfersTyped, T!Requests
    <2> QED
        BY <1>1, <2>1, <2>2 DEF Typed, TransfersTyped
<1>4. job' = [v \in Workers |->
                 IF v = w THEN T!Idle
                 ELSE IF T!Overlaps(v, j) THEN [job[v] EXCEPT !.missed = j.content]
                 ELSE job[v]]
    BY DEF T!Commit, T!Release
<1>5. ASSUME NEW v \in Workers, T!Overlaps(v, j)
      PROVE  /\ [job[v] EXCEPT !.missed = j.content] \in T!Requests
             /\ [job[v] EXCEPT !.missed = j.content].phase = job[v].phase
             /\ job[v].phase = "read"
    <2>1. job[v] \in T!Requests /\ job[v].phase = "read"
        BY <1>5 DEF T!Overlaps, Typed, TransfersTyped, T!Idle
    <2>2. j.content \in [Keys -> Nat]
        BY <1>1 DEF T!Requests
    <2> QED
        BY <2>1, <2>2 DEF T!Requests
<1>6. job' \in [Workers -> T!Requests \cup {T!Idle}]
    BY <1>4, <1>5 DEF Typed, TransfersTyped
<1>7. ASSUME NEW v \in Workers \ {w}
      PROVE  /\ job'[v].phase = job[v].phase
             /\ job[v].phase = "saved" => job'[v] = job[v]
    <2>1. CASE T!Overlaps(v, j)
        BY <1>4, <1>5, <2>1
    <2>2. CASE ~T!Overlaps(v, j)
        BY <1>4, <2>2
    <2> QED
        BY <2>1, <2>2
<1> QED
    BY <1>1, <1>2, <1>3, <1>4, <1>6, <1>7

\* What a commit about a transfer posts: nothing, or the content of the notice.
LEMMA TransferPosted ==
    ASSUME Typed, NEW w \in Workers, T!Commit(w)
    PROVE  LET t == job[w].transfer
               from == transfer[t].debit_from
               recorded == job[w].status = "VALIDATED" IN
           /\ LedgerTyped' /\ linked' \in [Transfers -> [Keys -> Nat]]
           /\ \A o \in Organizations, k \in Keys :
                  /\ credited[o][k] <= credited'[o][k]
                  /\ debited'[o][k] = debited[o][k]
                         + (IF recorded /\ o = from THEN content[t][k] ELSE 0)
           /\ \A u \in Transfers, k \in Keys :
                  linked'[u][k] = linked[u][k]
                      + (IF recorded /\ u = t THEN content[t][k] ELSE 0)
<1> DEFINE t == job[w].transfer
           from == transfer[t].debit_from
           to == job[w].credit_to
           rows == content[t]
<1>1. job[w] \in T!Requests /\ t \in Transfers
    BY TransferCommitted
<1>2. rows \in [Keys -> Nat] /\ from \in Organizations /\ to \in Organizations
    BY <1>1 DEF Typed, TransfersTyped, T!Rows, T!Requests
<1>3. ASSUME NEW a \in [Keys -> Nat], NEW b \in [Keys -> Nat]
      PROVE  /\ T!Plus(a, b) \in [Keys -> Nat]
             /\ \A k \in Keys : T!Plus(a, b)[k] = a[k] + b[k]
    BY DEF T!Plus
<1>4. CASE job[w].status # "VALIDATED"
    <2>1. UNCHANGED <<credited, debited, linked>>
        BY <1>4 DEF T!Commit, T!Record
    <2> QED
        BY <1>1, <1>2, <1>4, <2>1 DEF Typed, TransfersTyped, LedgerTyped
<1>5. CASE job[w].status = "VALIDATED"
    <2>1. /\ credited' = [credited EXCEPT ![to] = T!Plus(@, rows)]
          /\ debited' = [debited EXCEPT ![from] = T!Plus(@, rows)]
          /\ linked' = [linked EXCEPT ![t] = T!Plus(@, rows)]
        BY <1>5 DEF T!Commit, T!Record
    <2> HIDE DEF t, from, to, rows
    <2>2. LedgerTyped' /\ linked' \in [Transfers -> [Keys -> Nat]]
        <3>1. /\ T!Plus(credited[to], rows) \in [Keys -> Nat]
              /\ T!Plus(debited[from], rows) \in [Keys -> Nat]
              /\ T!Plus(linked[t], rows) \in [Keys -> Nat]
            BY <1>1, <1>2, <1>3 DEF Typed, TransfersTyped, LedgerTyped
        <3>2. LedgerTyped'
            BY <1>2, <2>1, <3>1 DEF Typed, LedgerTyped
        <3>3. linked' \in [Transfers -> [Keys -> Nat]]
            BY <1>1, <2>1, <3>1 DEF Typed, TransfersTyped
        <3> QED
            BY <3>2, <3>3
    <2>3. ASSUME NEW o \in Organizations, NEW k \in Keys
          PROVE  /\ credited[o][k] <= credited'[o][k]
                 /\ debited'[o][k] = debited[o][k] + (IF o = from THEN rows[k] ELSE 0)
        <3>1. credited[o][k] \in Nat /\ debited[o][k] \in Nat /\ rows[k] \in Nat
            BY <1>2 DEF Typed, LedgerTyped
        <3>2. credited'[o][k] = credited[o][k] + (IF o = to THEN rows[k] ELSE 0)
            <4>1. credited'[o] = IF o = to THEN T!Plus(credited[o], rows) ELSE credited[o]
                BY <2>1 DEF Typed, LedgerTyped
            <4>2. credited[o] \in [Keys -> Nat]
                BY DEF Typed, LedgerTyped
            <4> QED
                BY <1>2, <1>3, <3>1, <4>1, <4>2
        <3>3. debited'[o][k] = debited[o][k] + (IF o = from THEN rows[k] ELSE 0)
            BY <1>2, <1>3, <2>1, <3>1 DEF Typed, LedgerTyped
        <3> QED
            BY <3>1, <3>2, <3>3
    <2>4. ASSUME NEW u \in Transfers, NEW k \in Keys
          PROVE  linked'[u][k] = linked[u][k] + (IF u = t THEN rows[k] ELSE 0)
        <3>1. linked[u][k] \in Nat /\ rows[k] \in Nat
            BY <1>2 DEF Typed, TransfersTyped
        <3> QED
            BY <1>1, <1>2, <1>3, <2>1, <3>1 DEF Typed, TransfersTyped
    <2> QED
        BY <1>5, <2>2, <2>3, <2>4 DEF t, from, rows
<1> QED
    BY <1>4, <1>5


-----------------------------------------------------------------------------
\* The steps of agreements

\* What an agreement may do to the ledger: no total of rows shrinks.
LedgerGrows ==
    /\ LedgerTyped'
    /\ \A o \in Organizations, k \in Keys :
           credited[o][k] <= credited'[o][k] /\ debited[o][k] <= debited'[o][k]

\* A new agreement has its details and posts nothing.
LEMMA AgreementCreated ==
    ASSUME Typed, NEW w \in Workers, NEW a \in Agreements, NEW type \in Types,
           NEW c \in [Keys -> Nat], A!Create(w, a, type, c)
    PROVE  AgreementsTyped' /\ UNCHANGED ledger
<1>1. [agreement[a] EXCEPT !.status = "DRAFT", !.type = type] \in A!Rows
    BY DEF Typed, AgreementsTyped, A!Rows, A!Statuses
<1>2. agreement' = [agreement EXCEPT ![a] =
          [agreement[a] EXCEPT !.status = "DRAFT", !.type = type]]
    BY DEF A!Create, Typed, AgreementsTyped, A!Rows
<1>3. agreement' \in [Agreements -> A!Rows]
    BY <1>1, <1>2 DEF Typed, AgreementsTyped
<1>4. adjustment' = [adjustment EXCEPT ![a] = c] /\ UNCHANGED <<credited, debited, agreementJob>>
    BY DEF A!Create
<1> QED
    BY <1>3, <1>4 DEF Typed, AgreementsTyped, ledger

\* A request about an agreement that is received changes what its worker serves, at
\* most.
LEMMA AgreementStarted ==
    ASSUME Typed, NEW w \in Workers, NEW a \in Agreements, NEW r,
           A!Visible(a) => r \in A!Requests, A!Start(w, a, r)
    PROVE  AgreementsTyped' /\ UNCHANGED ledger
<1>1. r \in A!Requests /\ agreementJob' = [agreementJob EXCEPT ![w] = r]
    BY DEF A!Start
<1>2. UNCHANGED <<agreement, adjustment, credited, debited>>
    BY DEF A!Start
<1> QED
    BY <1>1, <1>2 DEF Typed, AgreementsTyped, ledger

\* A new agreement or a request about one leaves the ledger alone.
LEMMA AgreementReceived ==
    ASSUME Typed, NEW w \in Workers, NEW a \in Agreements, A!Receive(w, a)
    PROVE  AgreementsTyped' /\ UNCHANGED ledger
<1>1. \A c \in Adjustments \cup {A!NoContent} : c \in [Keys -> Nat]
    BY AmountsAssumption, NoContentType
<1>2. A!Visible(a) => agreement[a].status \in A!Statuses /\ agreement[a].type \in Types
    BY DEF Typed, AgreementsTyped, A!Rows, A!Visible
<1>3. ASSUME NEW type \in Types, NEW edits \in BOOLEAN,
             NEW c \in Adjustments \cup {A!NoContent}, A!ReceiveSave(w, a, type, edits, c)
      PROVE  AgreementsTyped' /\ UNCHANGED ledger
    <2> DEFINE r == A!Request(a, agreement[a].status, type, edits, c, TRUE)
    <2>1. A!Visible(a) => r \in A!Requests
        BY <1>1, <1>2, AgreementRequest DEF Typed
    <2>2. A!Start(w, a, r)
        BY <1>3 DEF A!ReceiveSave
    <2> QED
        BY <2>1, <2>2, AgreementStarted
<1>4. CASE A!ReceiveFiles(w, a)
    <2> DEFINE r == A!Request(a, agreement[a].status, agreement[a].type, FALSE,
                              A!NoContent, FALSE)
    <2>1. A!Visible(a) => r \in A!Requests
        BY <1>1, <1>2, AgreementRequest DEF Typed
    <2>2. A!Start(w, a, r)
        BY <1>4 DEF A!ReceiveFiles
    <2> QED
        BY <2>1, <2>2, AgreementStarted
<1>5. ASSUME NEW new \in A!Statuses, A!ReceiveDecision(w, a, new)
      PROVE  AgreementsTyped' /\ UNCHANGED ledger
    <2> DEFINE r == A!Request(a, new, agreement[a].type, FALSE, A!NoContent, FALSE)
    <2>1. A!Visible(a) => r \in A!Requests
        BY <1>1, <1>2, AgreementRequest DEF Typed
    <2>2. A!Start(w, a, r)
        BY <1>5 DEF A!ReceiveDecision
    <2> QED
        BY <2>1, <2>2, AgreementStarted
<1>6. CASE \E type \in Types, c \in Adjustments \cup {A!NoContent} :
               A!Create(w, a, type, c) \/ A!ReceiveSave(w, a, type, TRUE, c)
    <2> PICK type \in Types, c \in Adjustments \cup {A!NoContent} :
            A!Create(w, a, type, c) \/ A!ReceiveSave(w, a, type, TRUE, c)
        BY <1>6
    <2>1. CASE A!Create(w, a, type, c)
        BY <1>1, <2>1, AgreementCreated
    <2>2. CASE A!ReceiveSave(w, a, type, TRUE, c)
        BY <1>3, <2>2
    <2> QED
        BY <2>1, <2>2
<1>7. CASE \E type \in Types : A!ReceiveSave(w, a, type, FALSE, A!NoContent)
    BY <1>3, <1>7
<1> QED
    BY <1>4, <1>5, <1>6, <1>7, Zenon DEF A!Receive

\* A commit about an agreement posts its content, to the one side or the other.
LEMMA AgreementCommitted ==
    ASSUME Typed, NEW w \in Workers, A!Commit(w)
    PROVE  AgreementsTyped' /\ LedgerGrows
<1> DEFINE j == agreementJob[w]
           a == agreementJob[w].agreement
<1>1. j \in A!Requests /\ a \in Agreements
    BY DEF A!Commit, Typed, AgreementsTyped, A!Requests
<1>2. agreement' \in [Agreements -> A!Rows]
    <2>1. j.status \in A!Statuses /\ j.type \in Types
        BY <1>1 DEF A!Requests
    <2>2. agreement[a] \in A!Rows
        BY <1>1 DEF Typed, AgreementsTyped
    <2>3. agreement' = [agreement EXCEPT ![a] =
              [agreement[a] EXCEPT !.status = j.status, !.type = j.type]]
        BY <1>1 DEF A!Commit, Typed, AgreementsTyped, A!Rows
    <2> HIDE DEF j, a
    <2>4. [agreement[a] EXCEPT !.status = j.status, !.type = j.type] \in A!Rows
        BY <2>1, <2>2 DEF A!Rows
    <2> QED
        BY <1>1, <2>3, <2>4 DEF Typed, AgreementsTyped
<1>3. PICK c \in A!ContentToSave(j) :
          /\ adjustment' = [adjustment EXCEPT ![a] = c]
          /\ IF A!Posts(j) THEN A!AdjustCredits(a, j.type, c)
             ELSE UNCHANGED <<credited, debited, posted>>
    BY DEF A!Commit
<1>4. c \in [Keys -> Nat]
    BY <1>1, <1>3 DEF A!ContentToSave, A!Plus, Typed, AgreementsTyped, A!Requests
<1>5. adjustment' \in [Agreements -> [Keys -> Nat]]
    BY <1>1, <1>3, <1>4 DEF Typed, AgreementsTyped
<1>6. agreementJob' \in [Workers -> A!Requests \cup {A!Idle}]
    <2>1. ASSUME NEW v \in Workers, A!Overlaps(v, j)
          PROVE  [agreementJob[v] EXCEPT !.missed = j.content] \in A!Requests
        <3>1. agreementJob[v] \in A!Requests
            BY <2>1 DEF A!Overlaps, Typed, AgreementsTyped
        <3>2. j.content \in [Keys -> Nat]
            BY <1>1 DEF A!Requests
        <3> QED
            BY <3>1, <3>2 DEF A!Requests
    <2>2. agreementJob' = [v \in Workers |->
              IF v = w THEN A!Idle
              ELSE IF A!Overlaps(v, j)
              THEN [agreementJob[v] EXCEPT !.missed = j.content]
              ELSE agreementJob[v]]
        BY DEF A!Commit, A!Release
    <2> QED
        BY <2>1, <2>2 DEF Typed, AgreementsTyped
<1>7. LedgerGrows
    <2> DEFINE o == agreement[a].organization
    <2>1. o \in Organizations
        BY <1>1 DEF Typed, AgreementsTyped, A!Rows
    <2>2. ASSUME NEW b \in [Keys -> Nat]
          PROVE  /\ A!Plus(b, c) \in [Keys -> Nat]
                 /\ \A k \in Keys : b[k] <= A!Plus(b, c)[k]
        <3>1. \A k \in Keys : b[k] \in Nat /\ c[k] \in Nat
            BY <1>4
        <3>2. A!Plus(b, c) = [k \in Keys |-> b[k] + c[k]]
            BY DEF A!Plus
        <3> QED
            BY <3>1, <3>2
    <2>3. ASSUME NEW total \in [Organizations -> [Keys -> Nat]], NEW next,
                 next = total \/ next = [total EXCEPT ![o] = A!Plus(@, c)]
          PROVE  /\ next \in [Organizations -> [Keys -> Nat]]
                 /\ \A p \in Organizations, k \in Keys : total[p][k] <= next[p][k]
        <3>1. \A p \in Organizations, k \in Keys : total[p][k] <= total[p][k]
            <4> SUFFICES ASSUME NEW p \in Organizations, NEW k \in Keys
                         PROVE  total[p][k] <= total[p][k]
                OBVIOUS
            <4>1. total[p][k] \in Nat
                OBVIOUS
            <4> QED
                BY <4>1
        <3>2. CASE next = total
            BY <3>1, <3>2
        <3>3. CASE next = [total EXCEPT ![o] = A!Plus(@, c)]
            <4> HIDE DEF o
            <4>1. total[o] \in [Keys -> Nat]
                BY <2>1
            <4>2. next \in [Organizations -> [Keys -> Nat]]
                BY <2>1, <2>2, <3>3, <4>1
            <4>3. \A p \in Organizations :
                      next[p] = IF p = o THEN A!Plus(total[o], c) ELSE total[p]
                BY <3>3
            <4> QED
                BY <2>2, <3>1, <4>1, <4>2, <4>3
        <3> QED
            BY <2>3, <3>2, <3>3
    <2>4. /\ credited' = credited \/ credited' = [credited EXCEPT ![o] = A!Plus(@, c)]
          /\ debited' = debited \/ debited' = [debited EXCEPT ![o] = A!Plus(@, c)]
        BY <1>3 DEF A!AdjustCredits
    <2> HIDE DEF o
    <2> QED
        BY <2>3, <2>4 DEF Typed, LedgerTyped, LedgerGrows
<1> QED
    BY <1>2, <1>5, <1>6, <1>7 DEF AgreementsTyped


-----------------------------------------------------------------------------
\* The invariant

\* What a notice has moved was debited from its seller.
LinkedIsDebited ==
    \A t \in Transfers, k \in Keys : linked[t][k] <= debited[transfer[t].debit_from][k]

\* The row lock: one transaction at a time has updated a notice.
RowLocks ==
    \A v, w \in Workers :
        v # w /\ job[v].phase = "saved" /\ job[w].phase = "saved"
            => job[v].transfer # job[w].transfer

\* Once the balance was read, the seller was ever credited enough to record the
\* notice once more, even if its balance is reduced before the commit.
SavedWasCredited ==
    \A w \in Workers, k \in Keys :
        LET t == job[w].transfer IN
        job[w].phase = "saved" /\ job[w].status = "VALIDATED"
            => linked[t][k] + content[t][k] <= credited[transfer[t].debit_from][k]

Inv ==
    /\ Typed /\ LinkedIsDebited /\ RowLocks /\ SavedWasCredited
    /\ NegativeOnlyByReductions

\* Nothing is linked at first.
LEMMA InvInit == Init => Inv
<1> SUFFICES ASSUME Init PROVE Inv
    OBVIOUS
<1> USE OpeningAssumption, NoContentType DEF Init, T!Init, A!Init
<1>1. TransfersTyped /\ LedgerTyped
    BY DEF TransfersTyped, LedgerTyped, T!Rows
<1>2. AgreementsTyped
    <2>1. (CHOOSE type \in Types : TRUE) \in Types
        BY TypesAssumption
    <2>2. agreement \in [Agreements -> A!Rows]
        BY <2>1 DEF A!Rows
    <2> QED
        BY <2>2 DEF AgreementsTyped
<1>3. \A t \in Transfers, k \in Keys : linked[t][k] = 0
    BY DEF T!NoContent
<1>4. \A o \in Organizations, k \in Keys : credited[o][k] \in Nat /\ debited[o][k] \in Nat
    BY <1>1 DEF LedgerTyped
<1>5. \A t \in Transfers : transfer[t].debit_from \in Organizations
    BY <1>1 DEF TransfersTyped, T!Rows
<1>6. \A w \in Workers : job[w].phase = "idle"
    BY DEF T!Idle
<1>7. LinkedIsDebited /\ NegativeOnlyByReductions
    BY <1>3, <1>4, <1>5 DEF LinkedIsDebited, NegativeOnlyByReductions
<1>8. RowLocks /\ SavedWasCredited
    BY <1>6 DEF RowLocks, SavedWasCredited
<1> QED
    BY <1>1, <1>2, <1>7, <1>8 DEF Inv, Typed

\* A step that leaves the notices alone and adds to the ledger keeps the invariant.
LEMMA InvGrows ==
    ASSUME Inv, UNCHANGED <<transfer, content, linked, job>>, AgreementsTyped', LedgerGrows
    PROVE  Inv'
<1>1. Typed'
    BY DEF Inv, Typed, TransfersTyped, LedgerGrows
<1>2. ASSUME NEW t \in Transfers, NEW k \in Keys
      PROVE  LET from == transfer[t].debit_from IN
             /\ linked[t][k] \in Nat /\ content[t][k] \in Nat
             /\ credited[from][k] \in Nat /\ debited[from][k] \in Nat
             /\ credited'[from][k] \in Nat /\ debited'[from][k] \in Nat
             /\ credited[from][k] <= credited'[from][k]
             /\ debited[from][k] <= debited'[from][k]
    <2>1. transfer[t].debit_from \in Organizations
        BY DEF Inv, Typed, TransfersTyped, T!Rows
    <2> QED
        BY <1>1, <2>1 DEF Inv, Typed, TransfersTyped, LedgerTyped, LedgerGrows
<1>3. LinkedIsDebited' /\ NegativeOnlyByReductions'
    BY <1>2 DEF Inv, LinkedIsDebited, NegativeOnlyByReductions
<1>4. RowLocks'
    BY DEF Inv, RowLocks
<1>5. SavedWasCredited'
    <2> SUFFICES ASSUME NEW w \in Workers, NEW k \in Keys,
                        job[w].phase = "saved", job[w].status = "VALIDATED"
                 PROVE  LET t == job[w].transfer IN
                        linked[t][k] + content[t][k] <= credited'[transfer[t].debit_from][k]
        BY DEF SavedWasCredited
    <2>1. job[w].transfer \in Transfers
        BY DEF Inv, Typed, TransfersTyped, T!Idle, T!Requests
    <2>2. LET t == job[w].transfer IN
          linked[t][k] + content[t][k] <= credited[transfer[t].debit_from][k]
        BY DEF Inv, SavedWasCredited
    <2> QED
        BY <1>2, <2>1, <2>2
<1> QED
    BY <1>1, <1>3, <1>4, <1>5 DEF Inv

\* A worker that reads the balance sees that it covers the notice, and waits for
\* whoever has updated the row.
LEMMA InvSave ==
    ASSUME Inv, NEW w \in Workers, T!Save(w), UNCHANGED agreementVars
    PROVE  Inv'
<1> DEFINE t == job[w].transfer
           from == transfer[t].debit_from
<1>1. job[w] \in T!Requests /\ t \in Transfers
    BY DEF T!Save, Inv, Typed, TransfersTyped, T!Idle, T!Requests
<1>2. [job[w] EXCEPT !.phase = "saved"] \in T!Requests
    BY <1>1 DEF T!Requests
<1>3. /\ job' = [job EXCEPT ![w] = [job[w] EXCEPT !.phase = "saved"]]
      /\ UNCHANGED <<transfer, content, credited, debited, linked>>
    BY DEF T!Save
<1>4. job'[w].transfer = t /\ job'[w].status = job[w].status
    BY <1>1, <1>3 DEF T!Requests, Inv, Typed, TransfersTyped
<1>5. \A v \in Workers \ {w} : job'[v] = job[v]
    BY <1>3 DEF Inv, Typed, TransfersTyped
<1>6. Typed'
    BY <1>2, <1>3 DEF Inv, Typed, TransfersTyped, AgreementsTyped, LedgerTyped, agreementVars
<1>7. RowLocks'
    <2>1. \A v \in Workers \ {w} : job[v].phase = "saved" => job[v].transfer # t
        BY DEF T!Save, T!RowFree
    <2> QED
        BY <1>4, <1>5, <2>1 DEF Inv, RowLocks
<1>8. ASSUME NEW k \in Keys, job[w].status = "VALIDATED"
      PROVE  linked[t][k] + content[t][k] <= credited[from][k]
    <2>1. T!Covered(from, content[t])
        BY <1>8 DEF T!Save
    <2>2. from \in Organizations
        BY <1>1 DEF Inv, Typed, TransfersTyped, T!Rows
    <2>3. /\ linked[t][k] \in Nat /\ content[t][k] \in Nat
          /\ credited[from][k] \in Nat /\ debited[from][k] \in Nat
        BY <1>1, <2>2 DEF Inv, Typed, TransfersTyped, LedgerTyped
    <2>4. linked[t][k] <= debited[from][k] /\ linked[t][k] <= credited[from][k]
        BY <1>1 DEF Inv, LinkedIsDebited, NegativeOnlyByReductions
    <2>5. content[t][k] > 0 => content[t][k] <= credited[from][k] - debited[from][k]
        BY <2>1 DEF T!Covered, T!Balance
    <2> HIDE DEF t, from
    <2> QED
        BY <2>3, <2>4, <2>5
<1>9. SavedWasCredited'
    BY <1>3, <1>4, <1>5, <1>8 DEF Inv, SavedWasCredited
<1> QED
    BY <1>3, <1>6, <1>7, <1>9 DEF Inv, LinkedIsDebited, NegativeOnlyByReductions

\* A worker that starts or gives up leaves the rows alone.
LEMMA InvJob ==
    ASSUME Inv, NEW w \in Workers, NEW r \in T!Requests \cup {T!Idle}, r.phase # "saved",
           job' = [job EXCEPT ![w] = r],
           UNCHANGED <<transferTables, ledger, agreementVars>>
    PROVE  Inv'
<1>1. job'[w] = r /\ \A v \in Workers \ {w} : job'[v] = job[v]
    BY DEF Inv, Typed, TransfersTyped
<1>2. Typed'
    BY DEF Inv, Typed, TransfersTyped, AgreementsTyped, LedgerTyped, agreementVars,
           transferTables, ledger
<1>3. RowLocks'
    BY <1>1 DEF Inv, RowLocks
<1>4. SavedWasCredited'
    BY <1>1 DEF Inv, SavedWasCredited, transferTables, ledger
<1> QED
    BY <1>2, <1>3, <1>4 DEF Inv, LinkedIsDebited, NegativeOnlyByReductions, transferTables,
                            ledger

\* A commit records what was covered when the balance was read.
LEMMA InvCommit ==
    ASSUME Inv, NEW w \in Workers, T!Commit(w), UNCHANGED agreementVars
    PROVE  Inv'
<1> DEFINE t == job[w].transfer
           from(u) == transfer[u].debit_from
           recorded == job[w].status = "VALIDATED"
<1>1. Typed
    BY DEF Inv
<1>2. t \in Transfers /\ job[w].phase = "saved"
    BY <1>1, TransferCommitted DEF T!Commit
<1>3. Typed'
    <2>1. TransfersTyped' /\ LedgerTyped'
        BY <1>1, TransferCommitted, TransferPosted DEF TransfersTyped
    <2> QED
        BY <1>1, <2>1 DEF Typed, AgreementsTyped, agreementVars
<1>4. ASSUME NEW u \in Transfers, NEW k \in Keys
      PROVE  /\ from(u) \in Organizations /\ transfer'[u].debit_from = from(u)
             /\ linked[u][k] \in Nat /\ content[u][k] \in Nat
             /\ credited[from(u)][k] \in Nat /\ debited[from(u)][k] \in Nat
             /\ credited'[from(u)][k] \in Nat /\ debited'[from(u)][k] \in Nat
             /\ credited[from(u)][k] <= credited'[from(u)][k]
             /\ debited'[from(u)][k] = debited[from(u)][k]
                    + (IF recorded /\ from(u) = from(t) THEN content[t][k] ELSE 0)
             /\ linked'[u][k] = linked[u][k]
                    + (IF recorded /\ u = t THEN content[t][k] ELSE 0)
    <2>1. from(u) \in Organizations
        BY <1>1 DEF Typed, TransfersTyped, T!Rows
    <2>2. transfer'[u].debit_from = from(u)
        BY <1>1, TransferCommitted
    <2>3. /\ linked[u][k] \in Nat /\ content[u][k] \in Nat
          /\ credited[from(u)][k] \in Nat /\ debited[from(u)][k] \in Nat
          /\ credited'[from(u)][k] \in Nat /\ debited'[from(u)][k] \in Nat
        BY <1>1, <1>3, <2>1 DEF Typed, TransfersTyped, LedgerTyped
    <2> QED
        BY <1>1, <2>1, <2>2, <2>3, TransferPosted
<1>5. ASSUME NEW k \in Keys
      PROVE  /\ content[t][k] \in Nat
             /\ recorded => linked[t][k] + content[t][k] <= credited[from(t)][k]
    BY <1>2, <1>4 DEF Inv, SavedWasCredited
<1>6. ASSUME NEW v \in Workers, job'[v].phase = "saved"
      PROVE  v # w /\ job'[v] = job[v] /\ job[v].transfer \in Transfers \ {t}
    <2>1. v # w
        BY <1>1, <1>6, TransferCommitted DEF T!Idle
    <2>2. job[v].phase = "saved" /\ job'[v] = job[v]
        BY <1>1, <1>6, <2>1, TransferCommitted
    <2>3. job[v].transfer \in Transfers
        BY <1>1, <2>2 DEF Typed, TransfersTyped, T!Idle, T!Requests
    <2>4. job[v].transfer # t
        BY <1>2, <2>1, <2>2 DEF Inv, RowLocks
    <2> QED
        BY <2>1, <2>2, <2>3, <2>4
<1>7. \A u \in Transfers \ {t} : content'[u] = content[u]
    BY <1>1, TransferCommitted
<1> HIDE DEF t, recorded, from
<1>8. RowLocks'
    BY <1>6 DEF Inv, RowLocks
<1>9. LinkedIsDebited'
    <2> SUFFICES ASSUME NEW u \in Transfers, NEW k \in Keys
                 PROVE  linked'[u][k] <= debited'[transfer'[u].debit_from][k]
        BY DEF LinkedIsDebited
    <2>1. linked[u][k] <= debited[from(u)][k]
        BY DEF Inv, LinkedIsDebited, from
    <2> QED
        BY <1>4, <1>5, <2>1
<1>10. NegativeOnlyByReductions'
    <2> SUFFICES ASSUME NEW u \in Transfers, NEW k \in Keys
                 PROVE  linked'[u][k] <= credited'[transfer'[u].debit_from][k]
        BY DEF NegativeOnlyByReductions
    <2>1. linked[u][k] <= credited[from(u)][k]
        BY DEF Inv, NegativeOnlyByReductions, from
    <2>2. recorded /\ u = t => linked[u][k] + content[t][k] <= credited[from(u)][k]
        BY <1>5
    <2> QED
        BY <1>4, <1>5, <2>1, <2>2
<1>11. SavedWasCredited'
    <2> SUFFICES ASSUME NEW v \in Workers, NEW k \in Keys,
                        job'[v].phase = "saved", job'[v].status = "VALIDATED"
                 PROVE  LET u == job'[v].transfer IN
                        linked'[u][k] + content'[u][k]
                            <= credited'[transfer'[u].debit_from][k]
        BY DEF SavedWasCredited
    <2> DEFINE u == job[v].transfer
    <2>1. job'[v] = job[v] /\ u \in Transfers \ {t}
        BY <1>6
    <2>2. linked[u][k] + content[u][k] <= credited[from(u)][k]
        BY <2>1 DEF Inv, SavedWasCredited, from
    <2>3. content'[u] = content[u] /\ linked'[u][k] = linked[u][k]
        BY <1>4, <1>7, <2>1
    <2> QED
        BY <1>4, <2>1, <2>2, <2>3
<1> QED
    BY <1>3, <1>8, <1>9, <1>10, <1>11 DEF Inv

\* Every step keeps the invariant.
LEMMA InvStep == Inv /\ [Next]_vars => Inv'
<1> SUFFICES ASSUME Inv, [Next]_vars PROVE Inv'
    OBVIOUS
<1>1. Typed
    BY DEF Inv
<1>2. ASSUME UNCHANGED ledger
      PROVE  LedgerGrows
    <2>1. \A o \in Organizations, k \in Keys :
              credited[o][k] \in Nat /\ debited[o][k] \in Nat
        BY <1>1 DEF Typed, LedgerTyped
    <2> QED
        BY <1>1, <1>2, <2>1 DEF LedgerGrows, LedgerTyped, Typed, ledger
<1>3. ASSUME NEW w \in Workers, Transferring(w) PROVE Inv'
    <2>1. UNCHANGED agreementVars
        BY <1>3 DEF Transferring
    <2>2. ASSUME NEW t \in Transfers, T!Receive(w, t) PROVE Inv'
        <3>1. PICK r \in T!Requests : r.phase = "read" /\ job' = [job EXCEPT ![w] = r]
            BY <1>1, <2>2, TransferReceived
        <3>2. UNCHANGED <<transferTables, ledger>>
            BY <1>1, <2>2, TransferReceived
        <3> QED
            BY <2>1, <3>1, <3>2, InvJob
    <2>3. CASE T!Save(w)
        BY <2>1, <2>3, InvSave
    <2>4. CASE T!Refuse(w)
        <3>1. job' = [job EXCEPT ![w] = T!Idle] /\ T!Idle.phase # "saved"
            BY <2>4 DEF T!Refuse, T!Idle
        <3>2. UNCHANGED <<transferTables, ledger>>
            BY <2>4 DEF T!Refuse, transferTables, ledger
        <3> QED
            BY <2>1, <3>1, <3>2, InvJob
    <2>5. CASE T!Commit(w)
        BY <2>1, <2>5, InvCommit
    <2> QED
        BY <1>3, <2>2, <2>3, <2>4, <2>5 DEF Transferring
<1>4. ASSUME NEW w \in Workers, Agreeing(w) PROVE Inv'
    <2>1. UNCHANGED <<transfer, content, linked, job>>
        BY <1>4 DEF Agreeing, transferVars
    <2>2. AgreementsTyped' /\ LedgerGrows
        <3>1. ASSUME NEW a \in Agreements, A!Receive(w, a)
              PROVE  AgreementsTyped' /\ LedgerGrows
            BY <1>1, <1>2, <3>1, AgreementReceived
        <3>2. CASE A!Commit(w)
            BY <1>1, <3>2, AgreementCommitted
        <3> QED
            BY <1>4, <3>1, <3>2 DEF Agreeing
    <2> QED
        BY <2>1, <2>2, InvGrows
<1>5. CASE Losing
    <2>1. UNCHANGED <<transfer, content, linked, job>>
        BY <1>5 DEF Losing, transferVars
    <2>2. UNCHANGED <<agreement, adjustment, agreementJob, credited, debited>>
        BY <1>5 DEF Losing, A!LoseFiles
    <2>3. AgreementsTyped' /\ LedgerGrows
        BY <1>1, <1>2, <2>2 DEF Typed, AgreementsTyped, ledger
    <2> QED
        BY <2>1, <2>3, InvGrows
<1>6. CASE UNCHANGED vars
    BY <1>6 DEF vars, transferVars, agreementVars, Inv, Typed, TransfersTyped, AgreementsTyped,
                LedgerTyped, LinkedIsDebited, RowLocks, SavedWasCredited,
                NegativeOnlyByReductions
<1> QED
    BY <1>3, <1>4, <1>5, <1>6 DEF Next

\* Whatever agreements take between the check of a balance and the commit, a notice
\* never transfers more than its seller was ever credited.
THEOREM TransfersWereCredited == Spec => []NegativeOnlyByReductions
<1>1. Init => Inv
    BY InvInit
<1>2. Inv /\ [Next]_vars => Inv'
    BY InvStep
<1>3. Inv => NegativeOnlyByReductions
    BY DEF Inv
<1> QED
    BY <1>1, <1>2, <1>3, PTL DEF Spec
=============================================================================
