SPECIFICATION FairSpec
CONSTANTS
    PoolName <- MCPoolName
    Value <- MCValue
    Specs <- GrowSpecs
    InitialSpecs <- MCInitial
    Edits <- GrowEdits
    Budget <- ConvergenceBudget
PROPERTIES
    Converges
    StatusInitialised
