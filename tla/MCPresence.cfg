SPECIFICATION FairSpec
CONSTANTS
    Agents = {a1, a2}
    Nobody = Nobody
    MaxFeed = 2
INVARIANTS
    TypeOK
    NoFalseOnline
    NoFalseOffline
    HubFollowsTopic
    BeliefIsTrue
PROPERTIES
    GoneIsSeen
    ThereIsSeen
