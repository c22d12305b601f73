\* Fair processes; one release to update to, two cuts or kills.
CONSTANTS
    MaxVersion = 2
    Pids = {1, 2, 3}
    NoPid = 0
    ClockSteps = TRUE
    MaxCuts = 2
    MaxInstalls = 0
SPECIFICATION FairSpec
PROPERTIES
    KeptMeansUp
    UnprovenSettles
