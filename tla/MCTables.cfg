\* Three handlers, two addresses, every limit on, handlers that may wait for the mutex across a tick.
\* Two sources share two session slots; connections stall or are lost, replies fail, sessions idle.
\* A udp-check player of three pings over a network that loses, reorders and repeats.
CONSTANTS
    ip1 = ip1
    ip2 = ip2
    s1 = s1
    s2 = s2
    h1 = h1
    h2 = h2
    h3 = h3
    Handlers <- MCHandlers
    IPs <- MCIPs
    RateLimitPerMinute = 1
    MaxConnections = 2
    MaxConnectionsPerIP = 1
    Minute = 2
    NoTime = NoTime
    NoPeer = NoPeer
    MaxSkew = 1
    MaxTime = 4
    MaxCount = 2
    Sources <- MCIPs
    Slots <- MCSlots
    NoSource = NoSource
    NoSlot = NoSlot
    Main = Main
    Sweeper = Sweeper
    Sweeps = TRUE
    Pinging = TRUE
    Deadlines = TRUE
    Stalls = TRUE
    LocalFaults = TRUE
    Players = {a}
    Noise = FALSE
    MaxSends = 3
    MaxFaults = 1
SPECIFICATION MCSpec
INVARIANTS RateBurstBound CountersMatchLeases NoOrphanSession QuietAfterReturn ResultsTrue
PROPERTIES ImplementsLeasePool RefusedOnlyAtALimit HealthyClosedOnlyByKey
SYMMETRY Symmetry
CHECK_DEADLOCK FALSE
