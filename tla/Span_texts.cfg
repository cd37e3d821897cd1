SPECIFICATION Spec
CONSTANTS
    Lines = {"OK", "PROMPT", "ERROR", "BLANK", "CMS_512", "CREG_0", "CREG_1", "WIND_6", "RING"}
    Reloads = FALSE
    Queued = FALSE
    Anonymous = TRUE
    Retrans = FALSE
    MaxSched = 2
    MaxCref = 0
    MaxTexts = 2
    SmsRetries = 1
    AnswerRetries = 1
    CmeLimit = 0
    DialLimit = 1
INVARIANTS
    TypeOK
    OneVerdict
    KeepsRunning
