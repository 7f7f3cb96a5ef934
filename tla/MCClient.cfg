\* Two local connections, or two UDP listeners; a retry, a delay of each kind.
\* One source and two slots: a session can be replaced while the old one drains; connections stall.
\* A udp-check player of two pings over a network that loses and reorders, and sockets that fail or are busy.
CONSTANTS
    w1 = w1
    w2 = w2
    Workers <- MCWorkers
    Networks <- MCNetworks
    ConnectRetries = 2
    InitialDelays <- MCInitialDelays
    MaxDelay = 3
    Pings = TRUE
    MaxDials = 1
    s1 = s1
    s2 = s2
    a1 = a1
    Sources = {a1}
    Slots = {s1, s2}
    NoSource = NoSource
    NoSlot = NoSlot
    Main = Main
    Sweeper = Sweeper
    Sweeps = TRUE
    Pinging = FALSE
    Deadlines = TRUE
    Stalls = TRUE
    LocalFaults = FALSE
    Players = {a1}
    Noise = TRUE
    MaxSends = 2
    MaxFaults = 1
SPECIFICATION MCSpec
INVARIANTS OneLateHandshake GroupOutlivesListeners ResultTellsWhy
PROPERTIES StopReturns HandlersEnd IdleSessionSwept ShutdownCompletes MCPlayersEnd
CHECK_DEADLOCK FALSE
