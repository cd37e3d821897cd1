SPECIFICATION Spec
CONSTANTS
    Chans = {c1, c2}
    Calls = {k1, k2}
    Events = {"RING", "PROGRESS", "ANSWER", "WAITING", "HANGUP", "DOWN", "UP", "RESTART"}
    Commands = {"power_off", "power_reset", "power_stat"}
    Traffic = {"in", "out"}
SYMMETRY Symmetry
INVARIANTS
    AtRest
    OwnerIsLive
    NoStaleCall
PROPERTY CallKept
CHECK_DEADLOCK FALSE
