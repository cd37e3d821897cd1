SPECIFICATION Spec
CONSTANTS
    Lines = {"OK", "ERROR", "CREG_0", "CREG_1", "WIND_5", "WIND_6", "RING", "CLIP", "CSQ_0", "CSQ_1", "PSCSC_0", "PSCSC_3", "PSCSC_4", "PSCSC_5", "NO_CARRIER", "PSCSC_20", "NO_DIALTONE", "BUSY", "CME_515", "JUNK", "WIND_3", "KSUP_0"}
    Reloads = FALSE
    Queued = FALSE
    Anonymous = FALSE
    Retrans = TRUE
    MaxSched = 2
    MaxCref = 1
    MaxTexts = 0
    SmsRetries = 0
    AnswerRetries = 2
    CmeLimit = 1
    DialLimit = 1
INVARIANTS
    HangupHasTimer
    OneReference
    CallHasChannel
