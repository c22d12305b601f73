\* Fair goroutines; two handlers whose requests leave the token alone, an API
\* that may die, and an edit of the file while it is down.
CONSTANTS
    Tokens = {tokA, tokB}
    Asked = {}
    Bodies = {b1}
    Handlers = {h1, h2}
    Clis = {k1}
    Nobody = Nobody
    MaxStarts = 1
    MaxApis = 1
    MaxDisconnects = 0
    MaxEdits = 1
    MaxBusy = 2
SPECIFICATION FairSpec
CHECK_DEADLOCK FALSE
PROPERTIES
    RequestsEnd
    EditedFileApplied
