SPECIFICATION FairSpec
CONSTANTS
    c1 = c1
    c2 = c2
    Commands = {c1}
    NoCommand = NoCommand
    ActionOf <- OneSleep
    Platform = "linux"
    MaxDownlink = 2
PROPERTIES
    RefusedNeverPerformed
    EveryCommandAnswered
    CommandFinishes
    KeepsFairPromise
