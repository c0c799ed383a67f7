SPECIFICATION FairSpec
CONSTANTS
    Wakes = {w1, w2, w3}
    WakeTimeout = 1
INVARIANTS
    TypeOK
    OnlineClosesWindow
    NoMissedOnline
    WaitersAreWatching
    SuccessIsReal
PROPERTIES
    WindowHonouredAlone
    EveryWakeEnds
    KeepsWakePromise
