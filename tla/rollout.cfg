SPECIFICATION FairSpec
CONSTANTS
    PoolName <- MCPoolName
    Value <- MCValue
    Specs <- UpgradeSpecs
    InitialSpecs <- MCInitial
    Edits <- UpgradeEdits
    Budget <- RolloutBudget
PROPERTIES
    ImageRollout
