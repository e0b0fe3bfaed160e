\* HEq sides compared with operator== instead of the normalising apply.
CONSTANTS
    Heap <- MCHeapHEq
    Root <- MCRootHEq
    Objs = {"oid", "oroot"}
    ObjNorm <- MCObjNorm
    ObjUseHash <- MCObjUseHash
    MaxCalls = 3

SPECIFICATION Spec
INVARIANT FreshAnswerIsEqModN

\* A client session ends after MaxCalls calls.
CHECK_DEADLOCK FALSE
