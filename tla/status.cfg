SPECIFICATION Spec
CONSTANTS
    Verdicts <- AnyVerdict
    MaxMishaps = 1
    MaxPodChanges = 2
INVARIANT TypeOK
PROPERTY ImplementsRegister
