SPECIFICATION Spec
CONSTANTS
    PoolName <- MCPoolName
    Value <- MCValue
    Specs <- GrowSpecs
    InitialSpecs <- MCInitial
    Edits <- GrowEdits
    Budget <- GrowBudget
INVARIANTS
    ClaimsForPods
