CONSTANTS
    Machines <- MCMachines
    Segments <- MCSegments
    Units = 8
    PageUnits = 2
    Pool = 8
    Devices = 2
    Functions = 4
SPECIFICATION Spec
CHECK_DEADLOCK FALSE
INVARIANTS
    TypeOK
    BootInfoTrue
    EnumeratesReachable
