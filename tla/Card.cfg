SPECIFICATION LiveSpec
CONSTANTS
    NumSpans = 2
    MaxRead = 2
    Piece = 1
    MsPerIrq = 2
    FifoSize = 5
    MaxCommand = 2
    Talkers = {1}
INVARIANTS TypeOK FreedIsUnused OwnAudio
PROPERTIES Served Sent
CHECK_DEADLOCK FALSE
