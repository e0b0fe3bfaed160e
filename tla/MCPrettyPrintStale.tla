------------------------- MODULE MCPrettyPrintStale -------------------------
(***************************************************************************)
(* operator()(e) on terms where a binder is named c, like the global      *)
(* constant c with an implicit argument, and c is used outside the        *)
(* binder's scope.                                                          *)
(***************************************************************************)
EXTENDS MCPrettyPrint

C == <<"c">>

MCStaleExprInputs ==
    MCExprInputs
    \cup {App(<<Bind("Lambda", C, CT, b), a>>) :
            b \in {Var(0), CT}, a \in {Cc, App(<<Cc, CT, CT>>)}}

=============================================================================
