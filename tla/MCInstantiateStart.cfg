\* Delayed substitution at start s = 1 against eager substitution.
CONSTANTS
    Inputs <- MCInputs
    Starts <- MCStartsWithOne
    Substs <- MCSubsts
    ClosedSubsts <- MCClosedSubsts
    ArgSeqs <- MCArgSeqs
    Assignments <- MCAssignments
    MaxSize = 12
    MaxCalls = 3
    MaxBetaRounds = 6

SPECIFICATION Spec
INVARIANT DelayedInstCommutes


\* A client session ends after MaxCalls calls.
CHECK_DEADLOCK FALSE
