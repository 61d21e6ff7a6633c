SPECIFICATION Spec
CONSTANTS
    PoolName <- MCPoolName
    Value <- MCValue
    Specs <- GrowSpecs
    InitialSpecs <- MCInitial
    Edits <- GrowEdits
    Budget <- Undisturbed
INVARIANTS
    HeadlessServesMinIO
