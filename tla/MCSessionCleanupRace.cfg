SPECIFICATION Spec
CONSTANTS
    s1 = s1
    s2 = s2
    r = r
    Sessions <- MCSessions
    Reclaimers <- MCNone
    Leftovers <- MCNew
    MaxCalls = 2
INVARIANTS
    HeldLockProtects
CHECK_DEADLOCK FALSE
