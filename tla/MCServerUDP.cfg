\* Three sessions of a broadcasting plugin: who is told what, and who is listed.
\* The statistics of two sessions that end while datagrams are counted and snapshots taken.
CONSTANTS
    s1 = s1
    s2 = s2
    s3 = s3
    p1 = p1
    p2 = p2
    Sessions <- MCSessions
    Plugins = {p1}
    CountedSessions <- MCCountedSessions
    CountedPlugins <- MCCountedPlugins
    PluginOf <- MCPluginOf
    FirstSeq <- MCFirstSeq
    PayloadSize <- MCPayloadSize
    MaxCounted <- MCMaxCounted
    PeerBroadcast = {p1}
    NoPlugin = NoPlugin
    NoSession = NoSession
    Pings = FALSE
    Deadlines = FALSE
    MaxPackets = 2
    MaxSent = 2
    MaxReplies = 0
    wrapping = wrapping
    steady = steady
    NoSeq = NoSeq
    Modulo = 4
    Behind = 1
    Ahead = 2
SPECIFICATION MCSpec
INVARIANTS HubIsWhoListens BroadcastExact LossBracketsMissing CountsAgree
SYMMETRY Symmetry
CHECK_DEADLOCK FALSE
