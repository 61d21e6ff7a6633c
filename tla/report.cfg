SPECIFICATION FairSpec
CONSTANTS
    PoolName <- MCPoolName
    Value <- MCValue
    Specs <- MCSpecs
    PodLists <- MCPodLists
    Leftovers <- MCLeftovers
    ClaimLists <- MCClaimLists
    Budget <- MCBudget
INVARIANTS
    TypeOK
    CompletedBacked
PROPERTIES
    ImplementsRegister
    ReportFitsSpec
    ReportCatchesUp
