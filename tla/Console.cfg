CONSTANTS
    Width = 4
    Height = 2
    Scanline = 5
    CellWidth = 2
    CellHeight = 1
    Pointer <- MCPointer
    BehindTable = 0
    Text <- MCText
    Font <- MCFont
    ScanCodes <- MCScanCodes
    MaxKeys = 3
    Packets <- MCPackets
    Garbage <- MCGarbage
    Listings <- MCListings
SPECIFICATION Spec
INVARIANTS
    TypeOK
    CursorOnGrid
    WritesOnEmptyCells
    NoTrails
    PointerSparesText
