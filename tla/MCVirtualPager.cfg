SPECIFICATION Spec
CONSTANTS
    c1 = c1
    c2 = c2
    k1 = k1
    f1 = f1
    f2 = f2
    Callers <- MCCallers
    Calls <- MCCalls
    Closers <- MCClosers
    Width <- MCWidth
    LineFeed = "n"
    UTFMax = 2
    TargetPageBytes = 2
    MaximumPageBytes = 3
    MaximumFragments = 2
    MaximumKeyBytes = 3
    KeyBytes <- MCKeyBytes
    MaxInt = 3
    WindowLimit <- MCWindowLimit
    Sources <- MCSources
    Offered <- MCOffered
    Requests <- MCRequests
    MaximumTasks = 2
    MaximumInflightBytes = 5
    CacheBytes = 3
    MaxGeneration = 2
    MaxOperations = 2
    Samples <- MCSamples
    Publications <- MCPublications
    Spans <- MCSpans
    Budgets <- MCBudgets
INVARIANTS
    BudgetsExact
    SourceOutlivesTasks
    LayoutExact
PROPERTIES
    PublicationsChain
    ProgressHonest
    CloseEnds
CHECK_DEADLOCK FALSE
