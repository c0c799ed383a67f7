SPECIFICATION Spec
CONSTANTS
    Chats = {k1}
    Hosts = {h1, h2}
    Messages = {m1}
    Actions = {"lock", "shutdown"}
    NoMessage = NoMessage
    NoHost = NoHost
    MaxQueue = 2
INVARIANTS
    TypeOK
    ConfirmedFirst
    WithinConfiguration
PROPERTIES
    AnswersWithinConfiguration
