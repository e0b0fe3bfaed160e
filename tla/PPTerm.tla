-------------------------------- MODULE PPTerm --------------------------------
(***************************************************************************)
(* Terms as the pretty printer of frontends/lean/pp.cpp sees them: de      *)
(* Bruijn variables, constants with hierarchical names, applications,     *)
(* Lambda, Pi and Sigma binders carrying a name hint, Let, HEq, pairs and  *)
(* projections.  HEq, Pair and Proj keep their sub-terms in the sequence *)
(* as, as App does, so that traversals treat them alike.  A name is a       *)
(* sequence of components: <<"x">> is x, name(n, i) is Append(n, i).       *)
(* Kind "Ctx" is the fake lambda context_to_lambda builds for a context    *)
(* entry.  Hole is what a reader makes of an ellipsis or of an implicit    *)
(* argument left to the elaborator.                                        *)
(***************************************************************************)
EXTENDS Naturals, Sequences

Var(i)            == [k |-> "Var", i |-> i]
Const(n)          == [k |-> "Const", n |-> n]
App(as)           == [k |-> "App", as |-> as]
Bind(kd, n, d, b) == [k |-> kd, n |-> n, d |-> d, b |-> b]
Let(n, v, b)      == [k |-> "Let", n |-> n, v |-> v, b |-> b]
HEq(l, r)         == [k |-> "HEq", as |-> <<l, r>>]
Pair(a, b, t)     == [k |-> "Pair", as |-> <<a, b, t>>]
Proj(first, a)    == [k |-> "Proj", first |-> first, as |-> <<a>>]
Hole              == [k |-> "Hole"]

BinderKinds == {"Lambda", "Pi", "Sigma", "Ctx"}
SeqKinds    == {"App", "HEq", "Pair", "Proj"}

IsAbstraction(e) == e.k \in {"Lambda", "Pi", "Sigma"}

(* occurs(n, b): the constant named n occurs in b. *)
RECURSIVE Occurs(_, _)
Occurs(n, e) ==
    CASE e.k = "Const" -> e.n = n
      [] e.k \in SeqKinds -> \E j \in DOMAIN e.as : Occurs(n, e.as[j])
      [] e.k \in BinderKinds -> Occurs(n, e.d) \/ Occurs(n, e.b)
      [] e.k = "Let"   -> Occurs(n, e.v) \/ Occurs(n, e.b)
      [] OTHER         -> FALSE

(* has_free_var(e, lo, hi): a variable of index in lo..hi-1, counted from *)
(* outside e, occurs in e.                                                 *)
RECURSIVE HasFreeVar(_, _, _)
HasFreeVar(e, lo, hi) ==
    CASE e.k = "Var"   -> lo <= e.i /\ e.i < hi
      [] e.k \in SeqKinds -> \E j \in DOMAIN e.as : HasFreeVar(e.as[j], lo, hi)
      [] e.k \in BinderKinds -> HasFreeVar(e.d, lo, hi) \/ HasFreeVar(e.b, lo + 1, hi + 1)
      [] e.k = "Let"   -> HasFreeVar(e.v, lo, hi) \/ HasFreeVar(e.b, lo + 1, hi + 1)
      [] OTHER         -> FALSE

(* lift_free_vars(e, s, d): variables of index >= s are raised by d. *)
RECURSIVE Lift(_, _, _)
Lift(e, s, d) ==
    CASE e.k = "Var"   -> IF e.i >= s THEN Var(e.i + d) ELSE e
      [] e.k \in SeqKinds -> [e EXCEPT !.as = [j \in DOMAIN @ |-> Lift(@[j], s, d)]]
      [] e.k \in BinderKinds -> Bind(e.k, e.n, Lift(e.d, s, d), Lift(e.b, s + 1, d))
      [] e.k = "Let"   -> Let(e.n, Lift(e.v, s, d), Lift(e.b, s + 1, d))
      [] OTHER         -> e

(* The largest number of binders above a variable, plus one: the length  *)
(* of the context a term needs to be closed.                              *)
RECURSIVE Loose(_)
Loose(e) ==
    LET MaxOf(S) == IF S = {} THEN 0 ELSE CHOOSE m \in S : \A x \in S : x <= m
    IN CASE e.k = "Var"   -> e.i + 1
         [] e.k \in SeqKinds -> MaxOf({Loose(e.as[j]) : j \in DOMAIN e.as})
         [] e.k \in BinderKinds ->
               MaxOf({Loose(e.d), IF Loose(e.b) > 0 THEN Loose(e.b) - 1 ELSE 0})
         [] e.k = "Let"   ->
               MaxOf({Loose(e.v), IF Loose(e.b) > 0 THEN Loose(e.b) - 1 ELSE 0})
         [] OTHER         -> 0

(* r stands for e: equal up to binder names, a Hole standing for any     *)
(* sub-term (expr operator== ignores binder names too).                   *)
RECURSIVE Matches(_, _)
Matches(r, e) ==
    \/ r.k = "Hole"
    \/ /\ r.k = e.k
       /\ CASE e.k = "Var"   -> r.i = e.i
            [] e.k = "Const" -> r.n = e.n
            [] e.k \in SeqKinds ->
                  /\ Len(r.as) = Len(e.as) /\ (e.k = "Proj" => r.first = e.first)
                  /\ \A j \in DOMAIN e.as : Matches(r.as[j], e.as[j])
            [] e.k = "Let"   -> Matches(r.v, e.v) /\ Matches(r.b, e.b)
            [] OTHER         -> Matches(r.d, e.d) /\ Matches(r.b, e.b)

(* expr operator== (expr_eq.h lines 70-72): binder names are ignored.    *)
AlphaEq(a, b) == Matches(a, b)

=============================================================================
