\* One worker, pages that show the stored status, no documents attached too late.
CONSTANTS
    acme = acme
    volt = volt
    s1 = s1
    s2 = s2
    v1 = v1
    v2 = v2
    a23 = a23
    Organizations = {acme, volt}
    Keys = {a23}
    Submissions = {s1, s2}
    Vins = {v1, v2}
    Sheets = {{v1}, {v1, v2}}
    Workers = {w1}
    Supplier <- EachItsOwn
    CreditsOf <- OneAndTwo
    FreshPages = TRUE
    AttachToIssued = FALSE
    IssueBound = 2
SPECIFICATION Spec
INVARIANTS IssuedVinNotIssuedAgain RecordsSelectRows PostedForRecords
PROPERTY LedgerSpec
CHECK_DEADLOCK FALSE
