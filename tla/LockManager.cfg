SPECIFICATION Spec
CONSTANTS
    Txns = {t1, t2, t3}
    Items = {x}
    Buckets = {b}
    hash <- MCHash
    Addrs = {a1, a2}
    Junk <- MCJunk
    MaxLocks = 3
    NULL = NULL
INVARIANTS
    TypeOK
    NoConflict
    NoLostWakeup
PROPERTIES
    GrantsInOrder
    NoStarvation

CHECK_DEADLOCK FALSE
