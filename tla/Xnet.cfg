CONSTANTS
    Uses = {"traffic", "lease", "names"}
    hostP = hostP
    hostQ = hostQ
    router = router
    distant = distant
    Peers <- ThreePeers
    None = none
    Buf = {1, 2, 3}
    Slot = {1, 2}
    Own = {a1, a2}
    Near = {hostP, hostQ, router}
    Far = {distant}
    Gateway = router
    Broadcast = broadcast
    RetryMs = 2
    EntryMs = 3
    MaxRetries = 1
    Socket = {"dhcp", "app", "q1", "q2"}
    DhcpPort = 68
    FirstEph = 101
    LastEph = 102
    Server = {hostP, hostQ}
    Grants <- FewGrants
    DefaultLease = 4
    DhcpRetryMs = 1
    DhcpRetries = 1
    Second = 2
    Word = 32
    DhcpSocket = "dhcp"
    Query = {"q1", "q2"}
    DnsServer = distant
    DnsRetryMs = 1
    DnsRetries = 1
    Elapsed = {1, 2}
    AppSocket = "app"
SPECIFICATION FairSpec
INVARIANTS StateAccounted
PROPERTIES LostOnlyWithLease ImplementsLeaseService PoolRecovers EveryQueryAnswered
