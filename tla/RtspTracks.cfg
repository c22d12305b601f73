\* Two clients compete for one slot of a stream whose track is retired and
\* registered again, under open access.
CONSTANTS
    Conns = {c1, c2}
    Tokens = {}
    NoToken = NoToken
    MaxClients = 1
    QueueDepth = 1
    MaxGen = 0
    MaxTracks = 2
    MaxSetups = 2
SPECIFICATION Spec
SYMMETRY Symmetry
CHECK_DEADLOCK FALSE
INVARIANTS
    GoneIsAccountedFor
