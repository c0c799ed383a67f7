SPECIFICATION Spec
CONSTANTS
    Agents = {a1}
    Nobody = Nobody
    MaxFeed = 2
PROPERTY
    SleepAnnounced
