SPECIFICATION Spec
CONSTANTS
    c0 = c0
    c1 = c1
    c2 = c2
    step = step
    back = back
    jump = jump
    j1 = j1
    j2 = j2
    j3 = j3
    None = None
    Contents <- MCContents
    Foreign <- MCForeign
    Edits <- MCEdits
    Effect <- MCEffect
    Width <- MCWidth
    EditBytes <- MCEditBytes
    JournalIds <- MCThreeIds
    HeaderBytes = 1
    MaxJournalBytes = 6
    MaxRevision = 2
    MaxFaults = 0
    MaxExternal = 0
SYMMETRY ThreeSymmetry
PROPERTY NoStaleReplay
CHECK_DEADLOCK FALSE
