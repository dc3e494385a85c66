CONSTANTS
    XMax = 5
    YMax = 3
    Packets <- MCPackets
    FirstPackets <- MCQuietPackets
SPECIFICATION Spec
INVARIANTS
    TypeOK
    PacketsGenuine
    MovesApplied
