CONSTANTS
    Uses = {"registry"}
    None = 0
    MaxPrio = 2
    BootFirst = 1
    Task = {1, 2, 3, 4}
    Idle = 4
    Base <- BaseEq
    Ready <- ReadyEq
    Few = {1, 2, 3}
    FewIdle = 3
    FewBase <- Base2
    FewReady <- Ready2
    Context = {1, 2, 3, 4, 5}
    Id <- IdEq
    CtxPrio <- PrioEq
    Boot = {1, 2, 5}
    IdleTask = 5
    Ports = {"arm_r5", "ch32h417"}
    MaxCount = 2
    InitCount = 1
    Item = {a, b}
    Capacity = 2
    Flag = {f, g}
    Bit = {x, y}
SPECIFICATION Spec
INVARIANTS SlotsReclaimed
