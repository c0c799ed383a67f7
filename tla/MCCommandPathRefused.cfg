SPECIFICATION Spec
CONSTANTS
    c1 = c1
    c2 = c2
    Commands = {c1}
    NoCommand = NoCommand
    ActionOf <- OneLock
    Platform = "linux"
    MaxDownlink = 1
INVARIANT
    RefusalIsAccurate
