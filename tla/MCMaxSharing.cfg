\* max_sharing over a heap of at most MaxNodes client nodes.
CONSTANTS
    Labels <- MCLabels
    InitHeap <- MCInitHeap
    Objs = {o1}
    Tmp = tmp
    MaxNodes = 5
    MaxCalls = 3

SPECIFICATION FairSpec
INVARIANT TypeOK
INVARIANT MaximalUnlessTrusted
PROPERTY ImplementsMaxSharingSpec

\* A client session ends after MaxCalls calls.
CHECK_DEADLOCK FALSE
