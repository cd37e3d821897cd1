SPECIFICATION Spec
CONSTANTS
    Lines = {"OK", "TEXT", "COPS", "CSQ_1", "CREG_1", "CREG_0", "WIND_3", "PIN_SIM", "CME_14", "CMS_301"}
    Configs = {{"SIDE_TONE"}}
    Updates = {"none", "this"}
    AutoReset = 1
    Powers = {TRUE}
    Resets = TRUE
    MaxSched = 2
    RetryLimit = 1
    CmeLimit = 0
INVARIANTS
    LoopAlive
    CardFirst
