SPECIFICATION FairSpec
CONSTANTS
    Verdicts <- Healthy
    MaxMishaps = 0
    MaxPodChanges = 2
PROPERTY StatusSettles
