\* Uploads that may overlap, fail and be killed.
CONSTANTS
    x1 = x1
    x2 = x2
    leaf = leaf
    bolt = bolt
    Vins = {x1, x2}
    Vehicles = {leaf, bolt}
    Files <- Disagreeing
    UploadBound = 3
SPECIFICATION FairSpec
INVARIANTS ReportedIsIngested RowsOfIngestedFiles DataAgreesWithLatest PreviousKept
PROPERTY UploadsEnd
CHECK_DEADLOCK FALSE
