\* One worker, up-to-date pages, two submissions that list the same VIN.
CONSTANTS
    acme = acme
    volt = volt
    s1 = s1
    s2 = s2
    v1 = v1
    v2 = v2
    a23 = a23
    Organizations = {acme, volt}
    Keys = {a23}
    Submissions = {s1, s2}
    Vins = {v1}
    Sheets = {{v1}}
    Workers = {w1}
    Supplier <- EachItsOwn
    CreditsOf <- OneEach
    FreshPages = TRUE
    AttachToIssued = TRUE
    IssueBound = 2
SPECIFICATION Spec
INVARIANT VinIssuedOnce
CHECK_DEADLOCK FALSE
