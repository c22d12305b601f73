\* One client that may be set up and told to play twice, two tokens and open
\* access, three token changes, one track.
CONSTANTS
    Conns = {c1}
    Tokens = {tokA, tokB}
    NoToken = NoToken
    MaxClients = 2
    QueueDepth = 1
    MaxGen = 3
    MaxTracks = 1
    MaxSetups = 2
SPECIFICATION FairSpec
CHECK_DEADLOCK FALSE
INVARIANTS
    TrustMeansCurrentToken
    RevokedGetsOnePacket
    OneStreamAsAnnounced
PROPERTIES
    RevokedIsEvicted
