SPECIFICATION FairSpec
CONSTANTS
    PoolName <- MCPoolName
    Value <- MCValue
    Specs <- SmallSpecs
    InitialSpecs <- SmallSpecs
    Edits <- NoEdits
    Budget <- CleanupBudget
PROPERTIES
    ImplementsDeployment
    CleanedUp
