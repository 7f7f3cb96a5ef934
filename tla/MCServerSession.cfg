\* Two handlers serve up to two sessions of one plugin, every interleaving of their counters.
CONSTANTS
    h1 = h1
    h2 = h2
    ip1 = ip1
    p1 = p1
    Handlers = {h1, h2}
    IPs = {ip1}
    Plugins = {p1}
    NoPlugin = NoPlugin
    MaxConnections = 2
    MaxConnectionsPerIP = 0
    Pings = TRUE
    MaxSessions = 2
    MaxTransfers = 1
SPECIFICATION FairSpec
INVARIANTS ActiveViewsAgree BytesConserved
PROPERTIES ErrorReleasesLease GoroutinesEnd
CHECK_DEADLOCK FALSE
