\* The is_modulo_eq object (root_fn, no hash) reused across calls without clear().
CONSTANTS
    Heap <- MCHeap
    Root <- MCRoot
    Objs = {"oroot"}
    ObjNorm <- MCObjNorm
    ObjUseHash <- MCObjUseHash
    MaxCalls = 3

SPECIFICATION Spec
INVARIANT AnswerIsEqModN

\* A client session ends after MaxCalls calls.
CHECK_DEADLOCK FALSE
