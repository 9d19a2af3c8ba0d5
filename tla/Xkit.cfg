SPECIFICATION SpecFair
CONSTANTS
    MaxTransfers = 2
    MaxLength = 2
    MaxArrivals = 2
    TimerWidth = 8
    MaxEvents = 3
    RingCapacity = 16
    MaxChunk = 3
    Tracked = {1, 2}
    Addresses = {0, 1, 2, 3, 4, 5, 6, 7, 8, 9, 10, 11, 12, 13, 14, 15, 16, 17, 18, 19}
    StackEnds = {0, 2, 8, 18}
    MaxDepth = 2
    RetryLimit = 2
    LineLength = 3
    MaxArgs = 2
    MaxPayload = 14
    QueueBytes = 3
    ChunkBytes = 2
    MaxBytes = 3
    LineMax = 12
    MaxLines = 3
    MaxSamples = 2
    MaxArms = 4
    MaxUrbs = 3
    UrbSlots = 2
    UrbTimeout = 2
    ClockWidth = 5
    MaxRequests = 5
    MaxPartitions = 3
    Word = 16
    SectorBytes = 2
    StorageSizes = {6, 8}
    MemoryStarts = {4, 12}
    MemorySize = 4
INVARIANTS DriversTruth ToolsTruth AppsTruth BootTruth
PROPERTIES EveryStartEnds
CHECK_DEADLOCK FALSE
