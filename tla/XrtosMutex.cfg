CONSTANTS
    Task = {1, 2, 3, 4}
    Idle = 4
    MaxPrio = 3
    None = 0
    RoundRobin = FALSE
    BootBase <- Base3
    BootReady <- Ready3
    BootFirst = 1
    Mutex = {m1, m2}
SPECIFICATION SpecWalk
INVARIANTS TypeOK ReadyListsAgree LockStructure LockResultTruthful PriorityInherited
PROPERTIES ImplementsLockService WalkEnds
