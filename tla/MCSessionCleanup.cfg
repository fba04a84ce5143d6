SPECIFICATION Spec
CONSTANTS
    s1 = s1
    s2 = s2
    r = r
    Sessions <- MCSessions
    Reclaimers <- MCReclaimers
    Leftovers <- MCLeftovers
    MaxCalls = 3
SYMMETRY SessionSymmetry
INVARIANTS
    ForeignKept
PROPERTIES
    LockProtects
    LeftoverReclaimed
CHECK_DEADLOCK FALSE
