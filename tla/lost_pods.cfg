SPECIFICATION FairSpec
CONSTANTS
    PoolName <- MCPoolName
    Value <- MCValue
    Specs <- GrowSpecs
    InitialSpecs <- MCInitial
    Edits <- GrowEdits
    Budget <- OneFault
PROPERTIES
    PodsEventuallyExist
