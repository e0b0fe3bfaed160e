\* expr_eq_fn objects with the identity and the root_fn normaliser.
CONSTANTS
    Heap <- MCHeap
    Root <- MCRoot
    Objs = {"oid", "oroot"}
    ObjNorm <- MCObjNorm
    ObjUseHash <- MCObjUseHash
    MaxCalls = 3

SPECIFICATION Spec
INVARIANT TypeOK
INVARIANT FreshAnswerIsEqModN

\* A client session ends after MaxCalls calls.
CHECK_DEADLOCK FALSE
