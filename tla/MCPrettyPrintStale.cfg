CONSTANTS
    ImplicitArgs <- MCImplicitArgs
    ExprInputs <- MCStaleExprInputs
    CtxInputs <- MCCtxInputs
    DefInputs <- MCDefInputs
    PostInputs <- MCPostInputs
    OptionSet <- MCOptions
    Notation <- MCNotation
    Coercions <- MCCoercions
    Prec <- MCPrec
SPECIFICATION Spec

INVARIANT RoundTrip
CHECK_DEADLOCK FALSE
