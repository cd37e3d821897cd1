SPECIFICATION Spec
CONSTANTS
    Commands = {"file", "sms", "forward", "app"}
    Messages <- MCMessages
    PhoneTexts <- MCPhoneTexts
    Smsc <- MCNoSmsc
    Own <- MCOwn
    Phone <- MCPhone
    Modes = {"pdu", "text"}
    Length7 = 4
    LengthUcs2 = 4
    Capacity = 300
    Ahead = 72
    MaxTexts = 2
INVARIANTS PartFits Addressed Exact AllArrive
CHECK_DEADLOCK FALSE
