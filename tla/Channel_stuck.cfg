SPECIFICATION LiveSpec
CONSTANTS
    Chans = {c1}
    Calls = {k1}
    Events = {"PROGRESS", "ANSWER", "HANGUP"}
    Commands = {}
    Traffic = {"out"}
PROPERTY DchanReturns
CHECK_DEADLOCK FALSE
