\* One release to update to, one cut or kill, one service install.
CONSTANTS
    MaxVersion = 2
    Pids = {1, 2, 3}
    NoPid = 0
    ClockSteps = TRUE
    MaxCuts = 1
    MaxInstalls = 1
SPECIFICATION Spec
INVARIANTS
    UnprovenCanBeRolledBack
    WithdrawnIsNotInstalled

    
