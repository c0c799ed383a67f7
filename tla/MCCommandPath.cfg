SPECIFICATION Spec
CONSTANTS
    c1 = c1
    c2 = c2
    Commands = {c1, c2}
    NoCommand = NoCommand
    ActionOf <- LockAndSleep
    Platform = "windows"
    MaxDownlink = 1
INVARIANTS
    TypeOK
    WaiterFollowsHandler
    OneActionAtATime
    OneWay
    VerdictIsTrue
    AtMostOnce
    AckBeforeDown
    YesKeptOrCorrected
    NoIsTrueIfNative
PROPERTIES
    ToldOnce
    ThreadsAdvance
    RefusedNeverPerformed
    KeepsPromise
