\* Two models that may have the same name, up-to-date pages.
CONSTANTS
    v1 = v1
    v2 = v2
    Vehicles = {v1, v2}
    Entries <- MCEntries
    FreshPages = TRUE
    HistoryBound = 3
    UploadBound = 1
SPECIFICATION Spec
SYMMETRY VehicleSymmetry
INVARIANTS ValueAsValidated DecisionsDocumented
CHECK_DEADLOCK FALSE
