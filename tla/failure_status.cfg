SPECIFICATION Spec
CONSTANTS
    PoolName <- MCPoolName
    Value <- MCValue
    Specs <- GrowSpecs
    InitialSpecs <- MCInitial
    Edits <- GrowEdits
    Budget <- OneFault
PROPERTIES
    FailureReported
