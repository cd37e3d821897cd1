SPECIFICATION LiveSpec
CONSTANTS
    Lines = {"OK", "PROMPT", "ERROR", "NO_CARRIER", "CREG_1", "WIND_3", "JUNK"}
    Reloads = TRUE
    Queued = FALSE
    Anonymous = FALSE
    Retrans = TRUE
    MaxSched = 2
    MaxCref = 1
    MaxTexts = 1
    SmsRetries = 1
    AnswerRetries = 1
    CmeLimit = 0
    DialLimit = 1
INVARIANTS
    SmsHasTimer
    AtMostRetries
PROPERTIES
    
    TextEnds
    HangupCompletes
    DialHappens
CHECK_DEADLOCK FALSE
