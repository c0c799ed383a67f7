SPECIFICATION Spec
CONSTANTS
    c1 = c1
    c2 = c2
    Commands = {c1}
    NoCommand = NoCommand
    ActionOf <- OneShutdown
    Platform = "windows"
    MaxDownlink = 2
PROPERTY
    NoAnswerDiscarded
