------------------------------ MODULE LambdaRef ------------------------------
(***************************************************************************)
(* Reference definitions for the substitution algebra: the textbook        *)
(* de Bruijn shift and one-variable substitution on binary applications,   *)
(* and normal-order (leftmost-outermost) beta reduction.  They share no    *)
(* definition with the model of instantiate.cpp and are what the code's    *)
(* n-ary, simultaneous substitution is compared with.                      *)
(***************************************************************************)
EXTENDS Expr, Integers

Diverged == [k |-> "Diverged"]

(* Binary form: App(<<f, a1, ..., an>>) as nested one-argument applications. *)
RECURSIVE Curry(_), CurryApp(_, _)
CurryApp(f, as) == IF as = <<>> THEN f
                   ELSE CurryApp(App(<<f, Curry(Head(as))>>), Tail(as))
Curry(e) ==
    CASE e.k = "App"    -> CurryApp(Curry(e.args[1]), Tail(e.args))
      [] e.k = "Lambda" -> Lambda(Curry(e.dom), Curry(e.body))
      [] OTHER          -> e

(* Shift by d the variables >= c; d may be negative. *)
RECURSIVE RefShift(_, _, _)
RefShift(d, c, e) ==
    CASE e.k = "Var"    -> IF e.idx >= c THEN Var(e.idx + d) ELSE e
      [] e.k = "App"    -> App(<<RefShift(d, c, e.args[1]), RefShift(d, c, e.args[2])>>)
      [] e.k = "Lambda" -> Lambda(RefShift(d, c, e.dom), RefShift(d, c + 1, e.body))
      [] OTHER          -> e

(* Replace variable j by v. *)
RECURSIVE RefSubst(_, _, _)
RefSubst(j, v, e) ==
    CASE e.k = "Var"    -> IF e.idx = j THEN v ELSE e
      [] e.k = "App"    -> App(<<RefSubst(j, v, e.args[1]), RefSubst(j, v, e.args[2])>>)
      [] e.k = "Lambda" -> Lambda(RefSubst(j, v, e.dom), RefSubst(j + 1, RefShift(1, 0, v), e.body))
      [] OTHER          -> e

RefBeta(lam, a) == RefShift(-1, 0, RefSubst(0, RefShift(1, 0, a), lam.body))

(* One leftmost-outermost step on a binary term. *)
RECURSIVE RefStep(_)
RefStep(e) ==
    CASE e.k = "App" /\ IsLambda(e.args[1]) ->
            [red |-> TRUE, t |-> RefBeta(e.args[1], e.args[2])]
      [] e.k = "App" ->
            LET f == RefStep(e.args[1])
                a == RefStep(e.args[2])
            IN IF f.red THEN [red |-> TRUE, t |-> App(<<f.t, e.args[2]>>)]
               ELSE [red |-> a.red, t |-> App(<<e.args[1], a.t>>)]
      [] e.k = "Lambda" ->
            LET d == RefStep(e.dom)
                b == RefStep(e.body)
            IN IF d.red THEN [red |-> TRUE, t |-> Lambda(d.t, e.body)]
               ELSE [red |-> b.red, t |-> Lambda(e.dom, b.t)]
      [] OTHER -> [red |-> FALSE, t |-> e]

(* The normal form of a binary term, or Diverged after fuel steps. *)
RECURSIVE RefNormalForm(_, _)
RefNormalForm(e, fuel) ==
    LET s == RefStep(e)
    IN IF ~s.red THEN e
       ELSE IF fuel = 0 THEN Diverged
       ELSE RefNormalForm(s.t, fuel - 1)

=============================================================================
