\* The section 4.1 claim that max_sharing results are maximally shared.
CONSTANTS
    Labels <- MCLabels
    InitHeap <- MCInitHeap
    Objs = {o1}
    Tmp = tmp
    MaxNodes = 5
    MaxCalls = 3

SPECIFICATION Spec
INVARIANT ResultIsMaximal

\* A client session ends after MaxCalls calls.
CHECK_DEADLOCK FALSE
