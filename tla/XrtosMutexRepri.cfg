CONSTANTS
    Task = {1, 2, 3, 4}
    Idle = 4
    MaxPrio = 2
    None = 0
    RoundRobin = TRUE
    BootBase <- BaseEq
    BootReady <- ReadyEq
    BootFirst = 1
    Mutex = {m1}
SPECIFICATION SpecRepri
INVARIANTS WaitersSorted
PROPERTIES FifoAmongEquals
