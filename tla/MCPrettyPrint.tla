---------------------------- MODULE MCPrettyPrint ----------------------------
(***************************************************************************)
(* Inputs for checking PrettyPrint with TLC.                               *)
(*                                                                         *)
(* Binder hints are x and y, global constants T and c, c with an implicit *)
(* argument followed by an explicit one.  The terms have up to three      *)
(* binders, so that a hint is reused under a binder of the same name      *)
(* (get_unused_name must pick x.1), domains are equal or not (grouping),  *)
(* a Pi chain turns into arrows at position 0, 1 or 2, lets nest, binders *)
(* sit side by side as arguments, and c is applied to no, one and two    *)
(* arguments; heterogeneous equalities, pairs, projections and Sigma    *)
(* appear as well.  The options run with the default budget, with a step *)
(* and a depth budget of 2, with pp.implicit set, notation off, coercions *)
(* shown, mk_infix right to left, pp.extra_lets on, and                  *)
(* pp.definition_value off.  Definitions of c, @c and f and postulates of *)
(* c and = bring binders with equal domains and different implicit marks. *)
(***************************************************************************)
EXTENDS PrettyPrint, FiniteSets, TLC

X == <<"x">>
Y == <<"y">>
Hints == {X, Y}
Kinds == {"Lambda", "Pi"}
CT == Const(<<"T">>)
Cc == Const(<<"c">>)

(* Terms over the globals and the variables of k enclosing binders. *)
Under(k) == {Var(i) : i \in 0..k - 1} \cup {CT, Cc}
Body(k)  == Under(k) \cup {App(<<a, b>>) : a \in Under(k), b \in Under(k)}

Terms1 == {Bind(kd, n, CT, b) : kd \in Kinds, n \in Hints, b \in Body(1)}

Terms2 ==
    {Bind(kd, n, CT, Bind(kd, m, d2, b)) :
        kd \in Kinds, n \in Hints, m \in Hints, d2 \in {CT, Var(0)}, b \in Body(2)}

Terms3 ==
    {Bind("Pi", X, CT, Bind("Pi", X, d2, Bind("Pi", Y, d3, b))) :
        d2 \in {CT, Var(0)}, d3 \in {CT, Var(1)}, b \in {CT, Var(0), Var(1), Var(2)}}
    \cup {Bind("Lambda", X, CT, Bind("Lambda", Y, Var(0), Bind("Lambda", X, CT, b))) :
            b \in {Var(0), Var(1), Var(2)}}

Lets ==
    {Let(n, v, b) : n \in Hints, v \in {CT, Bind("Lambda", X, CT, Var(0))}, b \in Body(1)}
    \cup {Let(X, CT, Let(m, Var(0), b)) : m \in Hints, b \in {Var(0), Var(1), App(<<Var(1), Var(0)>>)}}

Apps ==
    {App(<<Cc, t, u>>) : t \in {Bind("Lambda", X, CT, Var(0)), Bind("Lambda", X, CT, Cc)},
                         u \in {Bind("Lambda", X, CT, App(<<Var(0), Cc>>)), Bind("Pi", Y, CT, CT)}}

(* exists over a lambda, nested with equal or different domains, over a *)
(* predicate that is not a lambda (a constant named like the hint x, an  *)
(* application, or a variable of an enclosing lambda, which the normal   *)
(* form must lift), and exists alone or partly applied.                   *)
Ex == Const(ExistsName)
ExLam(n, d, b) == App(<<Ex, d, Bind("Lambda", n, d, b)>>)
Exists ==
    {ExLam(n, CT, b) : n \in Hints, b \in Body(1)}
    \cup {ExLam(X, CT, ExLam(m, d2, b)) :
            m \in Hints, d2 \in {CT, Var(0)}, b \in {Var(0), Var(1), App(<<Var(1), Var(0)>>)}}
    \cup {App(<<Ex, CT, p>>) : p \in {Cc, Const(X), App(<<Cc, CT>>)}}
    \cup {Bind("Lambda", X, CT, App(<<Ex, CT, p>>)) : p \in {Var(0), App(<<Cc, Var(0)>>)}}
    \cup {App(<<Ex, CT, ExLam(X, CT, Var(0))>>), Ex, App(<<Ex, CT>>),
          App(<<Cc, ExLam(X, CT, Var(0)), Ex>>)}

(* Heterogeneous equalities, runs of projections with proj1 and proj2   *)
(* mixed (the loop of pp_proj must stop at a proj1), pairs whose type is *)
(* a cartesian product, a dependent Sigma or no Sigma, and Sigma alone,   *)
(* cartesian or not, nested with equal domains.                            *)
SigmaC == Bind("Sigma", X, CT, CT)
SigmaD == Bind("Sigma", X, CT, App(<<Cc, Var(0)>>))
Others ==
    {HEq(Cc, CT), HEq(Bind("Lambda", X, CT, Var(0)), Bind("Lambda", Y, CT, Cc))}
    \cup {Proj(TRUE, Proj(FALSE, Proj(FALSE, Cc))), Proj(FALSE, Proj(TRUE, Cc)),
          Proj(FALSE, Proj(FALSE, Cc)), Proj(TRUE, Proj(FALSE, Proj(TRUE, Cc)))}
    \cup {Pair(Cc, CT, t) : t \in {SigmaC, SigmaD, CT}}
    \cup {SigmaC, SigmaD, Bind("Sigma", X, CT, Bind("Sigma", Y, CT, App(<<Var(1), Var(0)>>))),
          Bind("Sigma", X, CT, Bind("Sigma", Y, CT, CT))}

(* Operators of every fixity: + and * infixl at 65 and 70, ^ infixr at  *)
(* 75, = infix at 50 with an implicit type argument, not prefix at 40,   *)
(* ! postfix at 90, if-then-else mixfixl and [_] mixfixc; coe a coercion; *)
(* ++ infixr at 65, the precedence of the infixl +; _ ? _ : _ mixfixo at   *)
(* 40 and _ | mixfixr at 85; => infixr at 25, the precedence of the      *)
(* arrow.                                                                   *)
Plus == <<"+">>
Times == <<"*">>
Pow == <<"^">>
Eq == <<"=">>
Not == <<"not">>
Fact == <<"!">>
Ite == <<"if">>
Brk == <<"[">>
Coe == <<"coe">>
Cat == <<"++">>
Sel == <<"?">>
Abs == <<"|">>
Imp == <<"=>">>
CA == Const(<<"a">>)

MCNotation ==
    (Plus :> [fx |-> "Infixl", prec |-> 65, parts |-> 1]) @@
    (Times :> [fx |-> "Infixl", prec |-> 70, parts |-> 1]) @@
    (Pow :> [fx |-> "Infixr", prec |-> 75, parts |-> 1]) @@
    (Eq :> [fx |-> "Infix", prec |-> 50, parts |-> 1]) @@
    (Not :> [fx |-> "Prefix", prec |-> 40, parts |-> 1]) @@
    (Fact :> [fx |-> "Postfix", prec |-> 90, parts |-> 1]) @@
    (Ite :> [fx |-> "Mixfixl", prec |-> 45, parts |-> 3]) @@
    (Brk :> [fx |-> "Mixfixc", prec |-> 1000, parts |-> 2]) @@
    (Cat :> [fx |-> "Infixr", prec |-> 65, parts |-> 1]) @@
    (Sel :> [fx |-> "Mixfixo", prec |-> 40, parts |-> 2]) @@
    (Abs :> [fx |-> "Mixfixr", prec |-> 85, parts |-> 1]) @@
    (Imp :> [fx |-> "Infixr", prec |-> 25, parts |-> 1])

MCPrec == [app |-> 1000, arrow |-> 25, cartesian |-> 35, heq |-> 50]

Bin(op, l, r) == App(<<Const(op), l, r>>)
Un(op, a) == App(<<Const(op), a>>)
EqT(l, r) == App(<<Const(Eq), CT, l, r>>)

OpOnes == {Bin(op, CA, CA) : op \in {Plus, Times, Pow}} \cup {EqT(CA, CA), Un(Not, CA), Un(Fact, CA)}

(* Every operator over every operator of OpOnes on either side, binders  *)
(* as operands, mixfix arguments, arrows over operators and arrows, and  *)
(* coercions hidden around a name, at the top, as an argument and under  *)
(* a looser operator, and + and ++ of one precedence, either in either.   *)
Ops ==
    OpOnes
    \cup {Bin(op, x, CA) : op \in {Plus, Times, Pow}, x \in OpOnes}
    \cup {Bin(op, CA, x) : op \in {Plus, Times, Pow}, x \in OpOnes}
    \cup {EqT(x, CA) : x \in OpOnes} \cup {EqT(CA, x) : x \in OpOnes}
    \cup {Un(u, x) : u \in {Not, Fact}, x \in OpOnes}
    \cup {Bin(Plus, Bind("Lambda", X, CT, Var(0)), CA), Bin(Plus, CA, Bind("Lambda", X, CT, Var(0)))}
    \cup {App(<<Const(op), x, CA, y>>) : op \in {Ite, Sel}, x, y \in {CA, Bin(Plus, CA, CA), Un(Not, CA)}}
    \cup {Un(Abs, x) : x \in {CA, Bin(Plus, CA, CA), Un(Fact, CA), Un(Abs, CA)}}
    \cup {Un(Brk, Bin(Plus, CA, CA)), App(<<CT, Bin(Times, CA, CA)>>)}
    \cup {Bind("Pi", X, dd, b) : dd, b \in {EqT(CA, CA), Bind("Pi", Y, CT, CT), Bind("Sigma", Y, CT, CT)}}
    \cup {Bind("Sigma", X, Bind("Sigma", Y, CT, CT), CT)}
    \cup {Bin(p, Bin(q, CA, CA), CA) : p, q \in {Plus, Cat}} \cup {Bin(p, CA, Bin(q, CA, CA)) : p, q \in {Plus, Cat}}
    \cup {Bind("Pi", X, Bin(Imp, CA, CA), CT), Bin(Imp, Bind("Pi", X, CT, CT), CA),
          Bin(Imp, CA, Bind("Pi", X, CT, CT))}
    \cup {Bin(Times, Un(Coe, CA), CA), Un(Coe, Bin(Plus, CA, CA)), Bin(Times, Un(Coe, Bin(Plus, CA, CA)), CA),
          EqT(Un(Coe, Bin(Plus, CA, CA)), CA), App(<<CT, Un(Coe, Bin(Plus, CA, CA))>>)}

(* Terms with a sub-term T a more than once, as one object (pp_fn counts *)
(* objects; equal closed sub-terms are one object in a maximally shared  *)
(* term): once, nested in a shared term, shared by a scope and a binder  *)
(* body inside it, in two sibling binder bodies, built on the bound      *)
(* variable, under a let, and in a term whose names use the prefixes a   *)
(* and b (the aliases are then c.1.i).                                     *)
Ta == App(<<CT, CA>>)
TTa == App(<<CT, Ta, Ta>>)
Shared ==
    {TTa, App(<<CT, TTa, TTa>>), App(<<CT, Ta, Ta, Bind("Lambda", X, CT, TTa)>>),
     HEq(Bind("Lambda", X, CT, TTa), Bind("Lambda", Y, CT, App(<<Cc, Ta, Ta>>))),
     Bind("Lambda", X, CT, App(<<CT, App(<<CT, Var(0)>>), App(<<CT, Var(0)>>)>>)),
     Let(X, Ta, App(<<Var(0), Ta, Ta>>)), App(<<CT, Ta, Ta, Const(<<"b">>)>>),
     Bind("Pi", X, Bin(Imp, Ta, Ta), CT)}

AllTerms == Under(0) \cup Body(0) \cup Terms1 \cup Terms2 \cup Terms3 \cup Lets \cup Apps \cup Exists
            \cup Others \cup Ops \cup Shared

MCExprInputs == {e \in AllTerms : Loose(e) = 0}

(* Open terms under a context whose entries reuse a hint. *)
MCContexts ==
    {<<[n |-> X, d |-> CT]>>, <<[n |-> X, d |-> CT], [n |-> X, d |-> Var(0)]>>,
     <<[n |-> Y, d |-> CT], [n |-> X, d |-> CT]>>}

MCCtxInputs ==
    UNION {{[c |-> c, e |-> e] : e \in {t \in Body(2) \cup Terms1 \cup Lets : Loose(t) <= Len(c)}} :
              c \in MCContexts}

(* Compact definitions of f (no implicit arguments): a Pi chain and a    *)
(* Lambda chain with equal domains, and one whose domains differ (printed *)
(* as type and value apart); c, whose first argument is implicit, and its *)
(* explicit version @c, defined over equal domains.                        *)
F == <<"f">>
PiXY(d2, b) == Bind("Pi", X, CT, Bind("Pi", Y, d2, b))
MCDefInputs ==
    {[n |-> F, t |-> PiXY(CT, tb),
      v |-> Bind("Lambda", n, CT, Bind("Lambda", m, d2, vb))] :
        n \in Hints, m \in Hints, d2 \in {CT, Var(0)},
        tb \in {CT, Var(1), App(<<Cc, Var(0)>>)}, vb \in {Cc, Var(0), Var(1)}}
    \cup {[n |-> dn, t |-> PiXY(CT, CT), v |-> Bind("Lambda", X, CT, Bind("Lambda", Y, CT, vb))] :
            dn \in {<<"c">>, ExplicitName(<<"c">>)}, vb \in {Var(1), App(<<Cc, Var(0)>>)}}

(* Postulates: c (first argument implicit) over two binders of equal     *)
(* domains, over a dependent second binder, over one binder, and over     *)
(* three, past its mask; = (its type implicit) over A and two of type A;  *)
(* f without implicit arguments.                                           *)
MCPostInputs ==
    {[n |-> <<"c">>, t |-> t] :
        t \in {PiXY(CT, CT), PiXY(Var(0), Var(1)), Bind("Pi", X, CT, CT), PiXY(CT, Bind("Pi", X, CT, CT))}}
    \cup {[n |-> Eq, t |-> PiXY(Var(0), Bind("Pi", Y, Var(1), CT))], [n |-> F, t |-> PiXY(CT, CT)]}

Opt(dp, sp, im, nt, co, rtl, lets) ==
    [maxDepth |-> dp, maxSteps |-> sp, implicit |-> im, notation |-> nt, coercion |-> co, rtl |-> rtl,
     lets |-> lets, defval |-> TRUE]

MCOptions ==
    {Opt(1000, 1000, FALSE, TRUE, FALSE, FALSE, FALSE), Opt(2, 1000, FALSE, TRUE, FALSE, FALSE, FALSE),
     Opt(1000, 2, FALSE, TRUE, FALSE, FALSE, FALSE), Opt(1000, 2, FALSE, TRUE, FALSE, TRUE, FALSE),
     Opt(1000, 1000, TRUE, TRUE, FALSE, FALSE, FALSE), Opt(1000, 1000, FALSE, FALSE, FALSE, FALSE, FALSE),
     Opt(1000, 1000, FALSE, TRUE, TRUE, FALSE, FALSE), Opt(1000, 1000, FALSE, TRUE, FALSE, FALSE, TRUE),
     [Opt(1000, 1000, FALSE, TRUE, FALSE, FALSE, FALSE) EXCEPT !.defval = FALSE]}

(* c takes one implicit argument, then an explicit one; = takes its type *)
(* implicitly.                                                             *)
MCImplicitArgs == (<<"c">> :> <<TRUE, FALSE>>) @@ (Eq :> <<TRUE, FALSE, FALSE>>)

MCCoercions == {Coe}

=============================================================================
