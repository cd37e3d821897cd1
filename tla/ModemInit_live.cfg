SPECIFICATION LiveSpec
CONSTANTS
    Lines = {"OK", "TEXT", "COPS", "CSQ_1", "CREG_1", "PIN_SIM", "CME"}
    Configs = {{}}
    Updates = {"none"}
    AutoReset = 1
    Powers = {TRUE, FALSE}
    Resets = FALSE
    MaxSched = 2
    RetryLimit = 1
    CmeLimit = 0
PROPERTY StartRetried
