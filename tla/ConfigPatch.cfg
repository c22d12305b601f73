\* Two handlers of one API, from the initial reconcile on; one client may leave.
CONSTANTS
    Tokens = {tokA, tokB}
    Asked = {tokA, tokB}
    Bodies = {b1, b2}
    Handlers = {h1, h2}
    Clis = {k1}
    Nobody = Nobody
    MaxStarts = 1
    MaxApis = 1
    MaxDisconnects = 1
    MaxEdits = 0
    MaxBusy = 3
SPECIFICATION Spec
SYMMETRY Symmetry
CHECK_DEADLOCK FALSE
INVARIANTS
    SettledIsApplied
