\* One client that leaves while its PATCH is handled.
CONSTANTS
    Tokens = {tokA, tokB}
    Asked = {tokA, tokB}
    Bodies = {b1}
    Handlers = {h1}
    Clis = {k1}
    Nobody = Nobody
    MaxStarts = 1
    MaxApis = 1
    MaxDisconnects = 1
    MaxEdits = 0
    MaxBusy = 2
SPECIFICATION Spec
SYMMETRY Symmetry
CHECK_DEADLOCK FALSE
INVARIANTS
    TokenEnforced
