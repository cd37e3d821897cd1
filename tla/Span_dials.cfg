SPECIFICATION Spec
CONSTANTS
    Lines = {"OK", "PROMPT", "ERROR", "WIND_6", "CREG_1", "PSCSC_3", "PSCSC_4", "PSCSC_5", "RING"}
    Reloads = FALSE
    Queued = FALSE
    Anonymous = FALSE
    Retrans = FALSE
    MaxSched = 3
    MaxCref = 1
    MaxTexts = 1
    SmsRetries = 1
    AnswerRetries = 1
    CmeLimit = 0
    DialLimit = 2
INVARIANTS
    DialOwnsRecord
    DialsForChannel
CHECK_DEADLOCK FALSE
