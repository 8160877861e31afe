CONSTANTS
    MaxSize = 6
    Word = 61
    Low = 2
    MaxNum = 3
    MaxCalls = 3
    ArgLen = 1
    EntryLen = 0
    MaxReads = 2
SPECIFICATION Spec
INVARIANTS TypeOK StreamWhole CallbackOnce OneFate
CHECK_DEADLOCK FALSE
