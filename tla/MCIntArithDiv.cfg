CONSTANTS Inputs <- MCInputs
SPECIFICATION Spec
INVARIANT NoCrash
CHECK_DEADLOCK FALSE
