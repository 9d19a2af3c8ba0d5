SPECIFICATION Spec
CONSTANTS
    RootPorts = 1
    MaxDevices = 1
    MaxInterfaces = 3
    MaxEndpoints = 3
    MaxTransfers = 3
    MaxHid = 1
    MaxTag = 3
    ControlTimeout = 1
    Settle = 1
    Debounce = 1
    InterfaceLimit = 3
    EndpointLimit = 2
    DiskBlocks = 1
    Word = 4
    Commands <- MCCommands
    PcRequests <- MCPcRequests
    PcPayloads <- MCPcPayloads
    ForeignItems <- MCForeignItems
    ClassLists <- MCClassLists
    MaxCommands = 2
    MaxFaults = 1
    MaxUnplugs = 1
    MaxRequests = 4
INVARIANTS ControllerOwns AgreeOnAddress ClaimTrue
PROPERTIES PortSettles
CHECK_DEADLOCK FALSE
