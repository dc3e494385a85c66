CONSTANTS
    FirmwarePics <- MCFirmwarePics
    ScanBits <- MCScanBits
    EarlyKeys = FALSE
    Delays = {130}
    Frequencies = {2, 8, 20}
    base_frequency = 40
    Word = 16
    MinDivisor = 3
    Scale = 520
SPECIFICATION Spec
INVARIANTS
    TypeOK
    ServesItsLine
    BytesAnnounced
    SleepsNotTooLong
PROPERTIES
    SurplusNeverGrows
    LinesSpec
    BytesFetched
    SleeperWakes
