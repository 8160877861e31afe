CONSTANTS
    Peers = {p1}
    Clients = {c1, c2}
    UCHAR = 4
    UINT = 8
    ULONG = 16
    Nums = {0, 1, 2, 9}
    Junk <- MCJunk
    MaxLog = 2
    MaxStarts = 2
    MaxTimers = 4
SPECIFICATION Spec
INVARIANTS TypeOK CommitInLog AppliedInOrder
PROPERTIES VoteStays GrowsMonotonically
CHECK_DEADLOCK FALSE
