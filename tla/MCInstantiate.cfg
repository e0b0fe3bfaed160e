\* Substitution algebra: beta_reduce against normal-order reduction, and
\* delayed substitution on metavariables against eager substitution (s = 0).
CONSTANTS
    Inputs <- MCInputs
    Starts <- MCStarts
    Substs <- MCSubsts
    ClosedSubsts <- MCClosedSubsts
    ArgSeqs <- MCArgSeqs
    Assignments <- MCAssignments
    MaxSize = 12
    MaxCalls = 3
    MaxBetaRounds = 6

SPECIFICATION Spec

INVARIANT TypeOK
INVARIANT BetaReduceIsNormalForm
INVARIANT DelayedInstCommutes

\* A client session ends after MaxCalls calls.
CHECK_DEADLOCK FALSE
