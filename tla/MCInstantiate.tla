---------------------------- MODULE MCInstantiate ----------------------------
(***************************************************************************)
(* Small term sets for checking Instantiate with TLC.                      *)
(*                                                                         *)
(* Terms use two constants ("a" and the domain "T"), variables 0..2 and    *)
(* one metavariable "m".  The initial terms include lambdas of one and two *)
(* binders, applications of them to one and two arguments (so apply_beta   *)
(* sees m = num_args and m < num_args), lambdas whose domain mentions a    *)
(* variable, terms with a metavariable under a binder, and the             *)
(* non-normalising (fun x, x x) (fun x, x x).                              *)
(***************************************************************************)
EXTENDS Instantiate

Ty  == Constant("T")
Ca  == Constant("a")
Mv  == MetaVar("m", <<>>)

Atoms   == {Var(0), Var(1), Var(2), Ca}
Lam1    == {Lambda(Ty, b) : b \in Atoms \cup {Mv}} \cup {Lambda(Var(0), Var(0))}
Lam2    == {Lambda(Ty, l) : l \in Lam1}
SelfApp == Lambda(Ty, App(<<Var(0), Var(0)>>))

MCInputs ==
    Atoms \cup {Mv} \cup Lam1 \cup Lam2
    \cup {App(<<f, a>>) : f \in {Var(0)} \cup Lam1, a \in {Var(0), Var(1), Ca, Mv}}
    \cup {App(<<l, Var(0)>>) : l \in Lam2}
    \cup {App(<<l, a, b>>) : l \in Lam2, a \in {Var(0), Ca}, b \in {Var(1), Ca}}
    \cup {App(<<SelfApp, SelfApp>>),
          Lambda(Ty, App(<<Lambda(Ty, Var(1)), Var(0)>>)),
          App(<<Lambda(Ty, Lambda(Ty, App(<<Var(1), Var(0)>>))), Lambda(Ty, Var(0))>>)}

MCStarts == {0}

MCSubsts ==
    {<<a>> : a \in {Var(0), Var(1), Ca, Mv}} \cup {<<a, b>> : a, b \in {Var(0), Ca, Mv}}

MCClosedSubsts == {<<Ca>>, <<Ca, Ty>>}

MCArgSeqs == {<<a>> : a \in {Var(0), Ca}} \cup {<<Var(1), Ca>>}

MCAssignments ==
    {[n \in {"m"} |-> v] : v \in {Var(0), Var(2), Lambda(Ty, Var(1)), App(<<Var(1), Var(0)>>)}}

=============================================================================
