CONSTANTS
    BufferSize = 128
    Layout <- MCLayout
    Naturals64 = {9, 2147000}
    Integers64 <- MCIntegers
    HexValues <- MCHexValues
    Doubles <- MCDoubles
    Unit = 8
    IntLimit = 1024
    LongLimit = 1000000
    Places = {0, 2, 6}
    MostPlaces = 4
    Garbage = {0, 126, 255}
    MaxCalls = 3
SPECIFICATION Spec
CHECK_DEADLOCK FALSE
INVARIANT TextsIntact
