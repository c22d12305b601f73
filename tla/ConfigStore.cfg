\* A token command against one handler, an API that dies and its successor, and
\* an appliance that ends at any point and starts again.
CONSTANTS
    Tokens = {tokA, tokB}
    Asked = {tokA, tokB}
    Bodies = {b1}
    Handlers = {h1}
    Clis = {k1}
    Nobody = Nobody
    MaxStarts = 2
    MaxApis = 2
    MaxDisconnects = 0
    MaxEdits = 1
    MaxBusy = 3
SPECIFICATION Spec
SYMMETRY Symmetry
CHECK_DEADLOCK FALSE
INVARIANTS
    StoreIsFile
