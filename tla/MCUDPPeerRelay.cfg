\* Two sessions of a broadcasting plugin: slow peers and errors.
CONSTANTS
    s1 = s1
    s2 = s2
    p1 = p1
    Sessions = {s1, s2}
    Plugins = {p1}
    PeerBroadcast = {p1}
    NoPlugin = NoPlugin
    NoSession = NoSession
    Pings = TRUE
    Deadlines = TRUE
    MaxPackets = 1
    MaxSent = 2
    MaxReplies = 1
SPECIFICATION FairSpec
PROPERTIES BroadcastReturns ErrorEndsSession
CHECK_DEADLOCK FALSE
