CONSTANTS
    ImplicitArgs <- MCImplicitArgs
    ExprInputs <- MCExprInputs
    CtxInputs <- MCCtxInputs
    DefInputs <- MCDefInputs
    PostInputs <- MCPostInputs
    OptionSet <- MCOptions
    Notation <- MCNotation
    Coercions <- MCCoercions
    Prec <- MCPrec
SPECIFICATION Spec

INVARIANT DefTypeRoundTrip
CHECK_DEADLOCK FALSE
