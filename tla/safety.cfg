SPECIFICATION Spec
CONSTANTS
    PoolName <- MCPoolName
    Value <- MCValue
    Specs <- SafetySpecs
    InitialSpecs <- SafetyInitial
    Edits <- SafetyEdits
    Budget <- SafetyBudget
INVARIANTS
    TypeOK
    RevisionRecordsRound
    RoundApplied
    UnchangedPoolsApplied
    ObjectsInOrder
PROPERTIES
    ImplementsRegister
    ImplementsDeployment
