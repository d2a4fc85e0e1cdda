\* Two workers, pages that may show any earlier status.
CONSTANTS
    acme = acme
    volt = volt
    a23 = a23
    b23 = b23
    Organizations = {acme, volt}
    Keys = {a23}
    Agreements = {g1}
    Contents <- One
    Types = {"reduction", "penalty", "allocation"}
    Workers = {w1, w2}
    Opening <- OneKeyOpening
    FreshPages = FALSE
    SavesFinish = FALSE
    UploadBound = 1
    PostingBound = 2
SPECIFICATION Spec
SYMMETRY WorkerSymmetry
INVARIANTS IssuedIsPosted
CHECK_DEADLOCK FALSE
