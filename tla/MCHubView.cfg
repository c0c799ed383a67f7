SPECIFICATION Spec
CONSTANTS
    Watchers = {"watcher"}
    ProbeInterval = 1
    PingTimeout = 1
    OtherHosts = 1
    ReconnectMin = 1
    ReconnectMax = 2
    Keepalive = 1
    ConnectTimeout = 1
INVARIANTS
    TypeOK
    PresenceFollows
    ReachabilityFollows
    ShownFollows
