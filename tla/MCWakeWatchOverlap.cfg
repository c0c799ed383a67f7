SPECIFICATION Spec
CONSTANTS
    Wakes = {w1, w2}
    WakeTimeout = 2
PROPERTY
    WindowHonoured
