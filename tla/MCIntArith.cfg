CONSTANTS Inputs <- MCInputs
SPECIFICATION Spec
INVARIANT TypeOK
INVARIANT TypePreserved
INVARIANT NormalFormIsValue
CHECK_DEADLOCK FALSE
