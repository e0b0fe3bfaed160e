------------------------------ MODULE PrettyPrint ------------------------------
(***************************************************************************)
(* frontends/lean/pp.cpp: the naming, scoping and truncation decisions of *)
(* pp_fn and of the formatter entry points that use it.                   *)
(*                                                                         *)
(* The format a call produces is abstracted to the syntax a reader parses *)
(* back: "#i" is FVar(i), a name is FName(n), "..." is FEllipsis, and a   *)
(* binder is FBinder(kind, blocks, body) whose blocks are the groups      *)
(* "(x y : A)" and whose body may be a chain of arrows FArrow(A, B).       *)
(* An operator application is FOp(n, args), parentheses are FParen(f).    *)
(* Layout, unicode and weights are left out.  The state of a pp_fn that   *)
(* these decisions read is threaded through the operators: the set        *)
(* m_local_names (names), the counter m_num_steps (steps), and for       *)
(* pp.extra_lets the aliases in scope (aliases), their definitions (defs), *)
(* the sub-terms counted more than once in the scope (occs) and the alias *)
(* prefix m_aux (aux).  The options are a record o with maxDepth,         *)
(* maxSteps, implicit, notation, coercion, lets (pp.extra_lets with      *)
(* pp.alias_min_weight 0) and rtl: whether the build evaluates the two    *)
(* arguments of mk_infix right to left (C++ leaves the order unspecified). *)
(* Definition and postulate objects are printed by operator()(object):  *)
(* FSig(blocks, body) is "blocks : body" with a block in braces when the *)
(* implicit-argument mask of the name marks it, o.defval is              *)
(* pp.definition_value.                                                    *)
(* Values, metavariables and choice are not modelled.                      *)
(***************************************************************************)
EXTENDS PPTerm, FiniteSets

CONSTANTS
    ImplicitArgs,  \* constant name -> its implicit-argument mask
    ExprInputs,    \* terms given to operator()(e)
    CtxInputs,     \* [c, e] given to operator()(context, e, ...)
    DefInputs,     \* [n, t, v] definitions given to operator()(object)
    PostInputs,    \* [n, t] postulates given to operator()(object)
    OptionSet,     \* the options records a call may use
    Notation,      \* constant name -> [fx, prec, parts], its operator
    Coercions,     \* the constants declared as coercions
    Prec           \* [app, arrow, cartesian, heq]: the fixed precedences

FVar(i)                 == [k |-> "FVar", i |-> i]
FName(n)                == [k |-> "FName", n |-> n]
FEllipsis               == [k |-> "FEllipsis"]
FApp(fs)                == [k |-> "FApp", fs |-> fs]
FArrow(d, b)            == [k |-> "FArrow", d |-> d, b |-> b]
FBinder(kd, blocks, b)  == [k |-> "FBinder", kd |-> kd, blocks |-> blocks, b |-> b]
FLet(bs, b)             == [k |-> "FLet", bs |-> bs, b |-> b]
FHEq(l, r)              == [k |-> "FHEq", l |-> l, r |-> r]
FPair(a, b, t)          == [k |-> "FPair", a |-> a, b |-> b, t |-> t]
FProj(first, i, a)      == [k |-> "FProj", first |-> first, i |-> i, a |-> a]
FProduct(d, b)          == [k |-> "FProduct", d |-> d, b |-> b]
FOp(n, fs)              == [k |-> "FOp", n |-> n, fs |-> fs]
FParen(f)               == [k |-> "FParen", f |-> f]
FSig(blocks, b)         == [k |-> "FSig", blocks |-> blocks, b |-> b]

None == [k |-> "None"]

(* std::numeric_limits<unsigned>::max() as returned by                     *)
(* get_arrow_starting_at: above any number of binders of the inputs.       *)
NoArrow == 1000

Out(f, st) == [f |-> f, st |-> st]

(* get_explicit_version(env, n): the name of the explicit version of n. *)
ExplicitName(n) == <<"@">> \o n

(* The implicit_args a call of pp_abstraction_core is given: None (the  *)
(* null pointer) or Mask(m), m the mask of get_implicit_arguments.         *)
Mask(m) == [k |-> "Mask", m |-> m]

(* is_implicit, lines 856-858, at the 1-based position pos. *)
IsImplicitAt(ia, pos) == ia # None /\ pos <= Len(ia.m) /\ ia.m[pos]

(* pp_fn::has_implicit_arguments, lines 294-296. *)
HasImplicit(n, st) == n \in DOMAIN ImplicitArgs /\ n \notin st.names

(* mk_exists_fn, and the alias Exists it is printed as on its own. *)
ExistsName  == <<"exists">>
ExistsAlias == <<"Exists">>

(* pp_constant, lines 307-325: exists used as a function is printed as   *)
(* its alias; a constant with implicit arguments as its explicit version. *)
PPConstant(n, st) ==
    FName(CASE n = ExistsName    -> ExistsAlias
            [] HasImplicit(n, st) -> ExplicitName(n)
            [] OTHER              -> n)

(* pp_fn::is_coercion, lines 249-251. *)
IsCoercion(e) == e.k = "App" /\ Len(e.as) = 2 /\ e.as[1].k = "Const" /\ e.as[1].n \in Coercions

(* is_atomic, lines 256-279, for the kinds modelled: a hidden coercion is *)
(* as atomic as its argument.                                             *)
RECURSIVE IsAtomic(_, _)
IsAtomic(e, o) ==
    CASE e.k \in {"Var", "Const"}          -> TRUE
      [] ~o.coercion /\ IsCoercion(e)      -> IsAtomic(e.as[2], o)
      [] OTHER                              -> FALSE

(* is_arrow: a Pi whose body does not use its variable. *)
IsArrow(e) == e.k = "Pi" /\ ~HasFreeVar(e.b, 0, 1)

(* is_cartesian: a Sigma whose body does not use its variable. *)
IsCartesian(e) == e.k = "Sigma" /\ ~HasFreeVar(e.b, 0, 1)

(* get_unused_name, lines 132-144: n, n.1, n.2, ... the first not        *)
(* occurring as a constant in the body.                                  *)
RECURSIVE UnusedFrom(_, _, _)
UnusedFrom(n, b, i) == IF ~Occurs(Append(n, i), b) THEN Append(n, i) ELSE UnusedFrom(n, b, i + 1)

(* Seeded bug, caught by RoundTrip: the hint is used without checking the *)
(* body, as if the while loop were missing.                              *)
GetUnusedNameNoCheck(e) == e.n

GetUnusedName(e) == IF ~Occurs(e.n, e.b) THEN e.n ELSE UnusedFrom(e.n, e.b, 1)

(* replace_var_with_name, lines 150-160: variable 0 becomes the constant  *)
(* n, the variables above it go down by one.                              *)
RECURSIVE RVN(_, _, _)
RVN(e, n, off) ==
    CASE e.k = "Var"   -> IF e.i < off THEN e ELSE IF e.i = off THEN Const(n) ELSE Var(e.i - 1)
      [] e.k \in SeqKinds -> [e EXCEPT !.as = [j \in DOMAIN @ |-> RVN(@[j], n, off)]]
      [] e.k \in BinderKinds -> Bind(e.k, e.n, RVN(e.d, n, off), RVN(e.b, n, off + 1))
      [] e.k = "Let"   -> Let(e.n, RVN(e.v, n, off), RVN(e.b, n, off + 1))
      [] OTHER         -> e

ReplaceVarWithName(a, n) == RVN(a, n, 0)

Seqs == INSTANCE SequencesExt

(* Seeded bug, caught by AliasLetCapturesNothing: uses_prefix looks at  *)
(* the names of binders and lets only, so an alias can take the name of *)
(* a global constant of the term.                                          *)
RECURSIVE UsesPrefixBindersOnly(_, _)
UsesPrefixBindersOnly(e, p) ==
    CASE e.k \in SeqKinds -> \E j \in DOMAIN e.as : UsesPrefixBindersOnly(e.as[j], p)
      [] e.k \in BinderKinds -> Seqs!IsPrefix(p, e.n) \/ UsesPrefixBindersOnly(e.d, p) \/ UsesPrefixBindersOnly(e.b, p)
      [] e.k = "Let"   -> Seqs!IsPrefix(p, e.n) \/ UsesPrefixBindersOnly(e.v, p) \/ UsesPrefixBindersOnly(e.b, p)
      [] OTHER         -> FALSE

(* uses_prefix, lines 1231-1238: a constant, binder or let of e has a    *)
(* name that prefix is a prefix of.                                       *)
RECURSIVE UsesPrefix(_, _)
UsesPrefix(e, p) ==
    CASE e.k = "Const" -> Seqs!IsPrefix(p, e.n)
      [] e.k \in SeqKinds -> \E j \in DOMAIN e.as : UsesPrefix(e.as[j], p)
      [] e.k \in BinderKinds -> Seqs!IsPrefix(p, e.n) \/ UsesPrefix(e.d, p) \/ UsesPrefix(e.b, p)
      [] e.k = "Let"   -> Seqs!IsPrefix(p, e.n) \/ UsesPrefix(e.v, p) \/ UsesPrefix(e.b, p)
      [] OTHER         -> FALSE

(* find_unused_prefix, lines 1240-1255: a, else b, else the first c.i    *)
(* that no name of e starts with.                                          *)
RECURSIVE UnusedC(_, _)
UnusedC(e, i) == IF ~UsesPrefix(e, <<"c", i>>) THEN <<"c", i>> ELSE UnusedC(e, i + 1)

FindUnusedPrefix(e) ==
    CASE ~UsesPrefix(e, <<"a">>) -> <<"a">>
      [] ~UsesPrefix(e, <<"b">>) -> <<"b">>
      [] OTHER                   -> UnusedC(e, 1)

(* The distinct sub-terms update_num_occs visits (lines 205-219): it      *)
(* enters only applications, and each one once.                           *)
RECURSIVE AppReach(_)
AppReach(e) == {e} \cup (IF e.k = "App" THEN UNION {AppReach(e.as[j]) : j \in DOMAIN e.as} ELSE {})

(* The sub-terms of the scope e whose count in m_num_occs ends above 1   *)
(* (has_several_occs, lines 240-246): each distinct application adds one *)
(* for each of its argument positions holding the sub-term, e adds one.  *)
SeveralOccs(e) ==
    LET apps == {p \in AppReach(e) : p.k = "App"}
        Count(t) == (IF t = e THEN 1 ELSE 0)
                    + Cardinality(UNION {{<<p, j>> : j \in {i \in DOMAIN p.as : p.as[i] = t}} : p \in apps})
    IN {t \in AppReach(e) : Count(t) > 1}

(* get_arrow_starting_at, lines 870-895: the first position from which   *)
(* no Pi of the chain uses its variable.                                  *)
RECURSIVE NoneUsed(_)
NoneUsed(e2) == ~HasFreeVar(e2, 0, 1) /\ (e2.k = "Pi" => NoneUsed(e2.b))

RECURSIVE ArrowFrom(_, _)
ArrowFrom(e, pos) ==
    IF e.k # "Pi" THEN NoArrow
    ELSE IF NoneUsed(e.b) THEN pos ELSE ArrowFrom(e.b, pos + 1)

(* Seeded bug, caught by TypeOK: the arrow position is taken one binder   *)
(* early.                                                                 *)
ArrowStartingAtEarly(e) == IF ArrowFrom(e, 0) = NoArrow THEN NoArrow ELSE ArrowFrom(e, 0) - 1

ArrowStartingAt(e) == ArrowFrom(e, 0)

(* collect_nested, lines 783-795: the binders of kind k with their chosen *)
(* names (recorded in m_local_names) and domains, the body, and T with    *)
(* the same names put in.                                                 *)
RECURSIVE CollectNested(_, _, _, _)
CollectNested(e, T, k, st) ==
    IF e.k = k /\ (T = None \/ IsAbstraction(T))
    THEN LET n1 == GetUnusedName(e)
             r  == CollectNested(ReplaceVarWithName(e.b, n1),
                                 IF T = None THEN None ELSE ReplaceVarWithName(T.b, n1),
                                 k, [st EXCEPT !.names = @ \cup {n1}])
         IN [r EXCEPT !.bs = <<[n |-> n1, d |-> e.d]>> \o @]
    ELSE [bs |-> <<>>, b |-> e, T |-> T, st |-> st]

(* collect_nested_let, lines 1036-1046. *)
RECURSIVE CollectNestedLet(_, _)
CollectNestedLet(e, st) ==
    IF e.k = "Let"
    THEN LET n1 == GetUnusedName(e)
             r  == CollectNestedLet(ReplaceVarWithName(e.b, n1), [st EXCEPT !.names = @ \cup {n1}])
         IN [r EXCEPT !.bs = <<[n |-> n1, v |-> e.v]>> \o @]
    ELSE [bs |-> <<>>, b |-> e, st |-> st]

(* is_exists_expr, lines 362-364. *)
IsExistsExpr(e) == e.k = "App" /\ Len(e.as) = 3 /\ e.as[1] = Const(ExistsName)

(* mk_app(f, a): an application as head is extended (applications are    *)
(* kept flat).                                                             *)
MkApp2(f, a) == IF f.k = "App" THEN App(Append(f.as, a)) ELSE App(<<f, a>>)

(* The predicate of exists A p as a lambda: p itself, or the normal form  *)
(* fun x : A, p #0 (lines 385-392).                                        *)
ExistsLambda(e) ==
    IF e.as[3].k = "Lambda" THEN e.as[3]
    ELSE Bind("Lambda", <<"x">>, e.as[2], MkApp2(Lift(e.as[3], 0, 1), Var(0)))

(* collect_nested_quantifiers, lines 372-394: names chosen and recorded   *)
(* in m_local_names as in collect_nested, nested exists gathered.          *)
RECURSIVE CollectNestedQuantifiers(_, _)
CollectNestedQuantifiers(e, st) ==
    LET lam == ExistsLambda(e)
        n1  == GetUnusedName(lam)
        b   == ReplaceVarWithName(lam.b, n1)
        s1  == [st EXCEPT !.names = @ \cup {n1}]
        r   == IF IsExistsExpr(b) THEN CollectNestedQuantifiers(b, s1)
               ELSE [bs |-> <<>>, b |-> b, st |-> s1]
    IN [r EXCEPT !.bs = <<[n |-> n1, d |-> lam.d]>> \o @]

(* Seeded bug, caught by DeclImplicitArgsReadBack: a block takes every  *)
(* following binder of an equal domain, implicit or not.                  *)
RECURSIVE GroupEndAnyMark(_, _, _, _)
GroupEndAnyMark(bs, i, j, ia) ==
    IF j <= Len(bs) /\ AlphaEq(bs[j].d, bs[i].d) THEN GroupEndAnyMark(bs, i, j + 1, ia) ELSE j

(* The index after the run of binders from i with a domain equal to that *)
(* of i and the same implicit mark (the inner while of lines 1008-1011).   *)
RECURSIVE GroupEnd(_, _, _, _)
GroupEnd(bs, i, j, ia) ==
    IF j <= Len(bs) /\ AlphaEq(bs[j].d, bs[i].d) /\ IsImplicitAt(ia, j) = IsImplicitAt(ia, i)
    THEN GroupEnd(bs, i, j + 1, ia) ELSE j

AllSameDomain(bs) == \A j \in DOMAIN bs : AlphaEq(bs[j].d, bs[1].d)

(* application::get_arg: the arguments not marked implicit by mask m. *)
ExplicitArgs(args, m) ==
    LET idx == SelectSeq([j \in 1..Len(args) |-> j], LAMBDA j : j > Len(m) \/ ~m[j])
    IN [i \in DOMAIN idx |-> args[idx[i]]]

NoOp == [fx |-> "None", prec |-> 0, parts |-> 0]

(* find_op_for, lines 446-451: a local name hides the operator. *)
FindOpFor(e, st) ==
    IF e.k = "Const" /\ e.n \in DOMAIN Notation /\ e.n \notin st.names THEN Notation[e.n] ELSE NoOp

(* get_operator, lines 463-470: of e, else of its function. *)
GetOperator(e, st) ==
    IF FindOpFor(e, st) # NoOp THEN FindOpFor(e, st)
    ELSE IF e.k = "App" THEN FindOpFor(e.as[1], st) ELSE NoOp

(* is_dep_pair: a pair whose type is not a cartesian product. *)
IsDepPair(e) == e.k = "Pair" /\ ~IsCartesian(e.as[3])

(* get_operator_precedence, lines 475-492. *)
GetOperatorPrecedence(e, st) ==
    CASE GetOperator(e, st) # NoOp -> GetOperator(e, st).prec
      [] IsArrow(e)                -> Prec.arrow
      [] IsCartesian(e)            -> Prec.cartesian
      [] e.k \in {"Lambda", "Pi", "Let", "Sigma"} \/ IsExistsExpr(e) \/ IsDepPair(e) -> 0
      [] e.k = "HEq"               -> Prec.heq
      [] OTHER                     -> Prec.app

(* has_fixity, lines 497-506: an arrow is right associative. *)
HasFixity(e, fx, st) ==
    IF GetOperator(e, st) # NoOp THEN GetOperator(e, st).fx = fx ELSE IsArrow(e) /\ fx = "Infixr"

(* has_expected_num_args, lines 656-671: n explicit arguments. *)
HasExpectedNumArgs(n, op) ==
    CASE op.fx \in {"Infix", "Infixl", "Infixr"} -> n = 2
      [] op.fx \in {"Prefix", "Postfix"}         -> n = 1
      [] op.fx \in {"Mixfixl", "Mixfixr"}        -> n = op.parts
      [] op.fx = "Mixfixc"                       -> n = op.parts - 1
      [] op.fx = "Mixfixo"                       -> n = op.parts + 1

(* paren(r) on the printed r when b. *)
WithParen(r, b) == IF b THEN Out(FParen(r.f), r.st) ELSE r

(* pp_scoped_child, lines 797-807: parentheses when the precedence of e, *)
(* taken after e is printed, is below prec.                                *)
ScopedParen(r, e, prec, o) == WithParen(r, ~IsAtomic(e, o) /\ ~(prec <= GetOperatorPrecedence(e, r.st)))

(* pp_child_with_paren, lines 339-350: no parentheses around a name. *)
NameOrParen(r) == WithParen(r, r.f.k # "FName")

(* How a child is printed: by pp_child, pp_scoped_child at precedence    *)
(* prec, or pp_mixfix_child or pp_infix_child of operator op.             *)
Mode(m, op, fx, prec) == [m |-> m, op |-> op, fx |-> fx, prec |-> prec]

ChildMode == Mode("child", NoOp, "None", 0)

ScopedMode(prec) == Mode("scoped", NoOp, "None", prec)

(* pp_arrow_child and pp_arrow_body, lines 829-835. *)
ArrowChild == ScopedMode(Prec.arrow + 1)

ArrowBody == ScopedMode(Prec.arrow)

(* pp_cartesian_child and pp_cartesian_body, lines 837-843. *)
CartesianChild == ScopedMode(Prec.cartesian + 1)

CartesianBody == ScopedMode(Prec.cartesian)

(* pp_child, lines 355-360, on the printed r of e: parentheses unless e   *)
(* is atomic or r is a name.                                              *)
ChildParen(e, o, r) == IF IsAtomic(e, o) THEN r ELSE NameOrParen(r)

(* pp_mixfix_child, lines 512-521: parentheses unless e binds tighter     *)
(* than op.                                                                 *)
MixfixParen(op, e, o, st, r) ==
    IF IsAtomic(e, o) \/ op.prec < GetOperatorPrecedence(e, st) THEN r ELSE NameOrParen(r)

(* Mutant of InfixParen: an equal precedence never needs parentheses. *)
InfixParenNoFixity(op, e, o, st, r, fx) ==
    IF IsAtomic(e, o) \/ op.prec <= GetOperatorPrecedence(e, st) THEN r ELSE NameOrParen(r)

(* pp_infix_child, lines 527-539: also none when e has the same          *)
(* precedence and the fixity fx of the side that chains.                   *)
InfixParen(op, e, o, st, r, fx) ==
    IF \/ IsAtomic(e, o) \/ op.prec < GetOperatorPrecedence(e, st)
       \/ op.prec = GetOperatorPrecedence(e, st) /\ HasFixity(e, fx, st)
    THEN r ELSE NameOrParen(r)

(* The printed r of the child e, st the state before it, in mode m. *)
ChildAs(m, e, o, st, r) ==
    CASE m.m = "child"  -> ChildParen(e, o, r)
      [] m.m = "mixfix" -> MixfixParen(m.op, e, o, st, r)
      [] m.m = "infix"  -> InfixParen(m.op, e, o, st, r, m.fx)

(* The children of an operator application, pp_app lines 684-735:       *)
(* infix, infixr and infixl put pp_infix_child on the side that chains,   *)
(* prefix on its argument; every other child is by pp_mixfix_child.       *)
NotationModes(op, n) ==
    [j \in 1..n |->
        IF (op.fx = "Infixl" /\ j = 1) \/ (op.fx = "Infixr" /\ j = 2) \/ op.fx = "Prefix"
        THEN Mode("infix", op, op.fx, 0) ELSE Mode("mixfix", op, "None", 0)]

(* The operator's printed arguments, in argument order. *)
OpOut(n, r) == Out(FOp(n, [j \in DOMAIN r.fs |-> r.fs[j]]), r.st)

-----------------------------------------------------------------------------
(* pp_fn::pp and the methods it calls, on pp_fn state st.                 *)

(* A fresh pp_fn (lines 1262-1266): no local names, aliases or alias    *)
(* definitions (aliases, defs), an empty m_num_occs (occs, the sub-terms *)
(* it counts more than once), the prefix m_aux of alias names (aux).      *)
St0 == [names |-> {}, steps |-> 0, aliases |-> {}, defs |-> <<>>, occs |-> {}, aux |-> <<>>]

(* pp_fn::init, lines 1256-1261, before printing e. *)
InitSt(st, e) == [st EXCEPT !.aliases = {}, !.defs = <<>>, !.steps = 0, !.aux = FindUnusedPrefix(e)]

(* The alias of e made in an enclosing scope (m_local_aliases.find). *)
AliasOf(e, st) == (CHOOSE p \in st.aliases : p[1] = e)[2]

(* name(m_aux, m_local_aliases_defs.size() + 1) *)
NewAux(st) == Append(st.aux, Len(st.defs) + 1)

(* The end of pp (lines 1207-1212) on the printed r of e: outside the   *)
(* root of a scope, a sub-term counted more than once gets the next alias *)
(* name, its text becomes the alias definition, and the name is printed. *)
(* Every weight is at least 1, above pp.alias_min_weight 0.               *)
MkAlias(e, o, main, r) ==
    IF ~main /\ o.lets /\ e \in r.st.occs
    THEN Out(FName(NewAux(r.st)),
             [r.st EXCEPT !.aliases = @ \cup {<<e, NewAux(r.st)>>},
                          !.defs = Append(@, [n |-> NewAux(r.st), v |-> r.f])])
    ELSE r

(* Seeded bug, caught by RoundTrip: the scope's aliases are kept when it *)
(* ends, as if ~mk_scope did not pop m_local_aliases.                     *)
ScopeExitKeepAliases(e, o, st, prec, r) ==
    LET s2 == [r.st EXCEPT !.defs = st.defs, !.occs = st.occs]
    IN IF Len(r.st.defs) = Len(st.defs) THEN ScopedParen(Out(r.f, s2), e, prec, o)
       ELSE Out(FLet([j \in 1..Len(r.st.defs) - Len(st.defs) |-> r.st.defs[Len(st.defs) + j]], r.f), s2)

(* The end of pp_scoped_child (lines 801-825) on the printed r of e, st  *)
(* the state before: the scope's aliases are dropped, m_num_occs is     *)
(* restored; without new alias definitions r gets the parentheses prec  *)
(* asks for, with them it becomes "let defs in r", never parenthesised.  *)
ScopeExit(e, o, st, prec, r) ==
    LET s2 == [r.st EXCEPT !.aliases = st.aliases, !.defs = st.defs, !.occs = st.occs]
    IN IF Len(r.st.defs) = Len(st.defs) THEN ScopedParen(Out(r.f, s2), e, prec, o)
       ELSE Out(FLet([j \in 1..Len(r.st.defs) - Len(st.defs) |-> r.st.defs[Len(st.defs) + j]], r.f), s2)

RECURSIVE PP(_, _, _, _), PPAt(_, _, _, _, _), PPChild(_, _, _, _), PPScopedChild(_, _, _, _, _), PPChildAs(_, _, _, _, _), PPSeqOver(_, _, _, _, _, _),
          SeqStep(_, _, _, _, _, _, _), PPSeq(_, _, _, _, _, _),
          PPArgs(_, _, _, _), PPNotation(_, _, _, _, _, _), PPApp(_, _, _, _), AppWithHead(_, _, _, _),
          ArrowWithDomain(_, _, _, _), ProductWithDomain(_, _, _, _), OneBlockWithDomain(_, _, _, _),
          ArrowsThenBody(_, _, _, _), PPArrowTail(_, _, _, _, _, _),
          PPBlocks(_, _, _, _, _, _, _), BlocksFrom(_, _, _, _, _, _, _), PPOneBlock(_, _, _, _), PPWithT(_, _, _, _, _, _, _),
          PPCollected(_, _, _, _, _, _), PPAbstractionCore(_, _, _, _, _, _),
          LetThenBody(_, _, _, _), PPLetCollected(_, _, _), PPLet(_, _, _, _),
          PPExists(_, _, _, _), PPHEq(_, _, _, _), PPPair(_, _, _, _), PPProj(_, _, _, _)

(* Every child: pp one level deeper, then the parentheses of mode m. *)
PPChildAs(m, e, d, o, st) ==
    IF m.m = "scoped" THEN PPScopedChild(e, d, o, st, m.prec)
    ELSE ChildAs(m, e, o, st, PP(e, d + 1, o, st))

(* The children as at the positions ks, each printed as its mode says,  *)
(* in the order of ks; the printed children are appended to acc.fs.       *)
PPSeqOver(modes, as, d, o, acc, ks) ==
    IF ks = <<>> THEN acc
    ELSE SeqStep(modes, as, d, o, acc, ks, PPChildAs(modes[Head(ks)], as[Head(ks)], d, o, acc.st))

(* acc after the child at Head(ks) printed as r, then the rest. *)
SeqStep(modes, as, d, o, acc, ks, r) ==
    PPSeqOver(modes, as, d, o, [fs |-> Append(acc.fs, r.f), st |-> r.st], Tail(ks))

InOrder(r, rtl) == IF rtl THEN [r EXCEPT !.fs = [j \in DOMAIN @ |-> @[Len(@) - j + 1]]] ELSE r

(* All children, first to last, or last to first when rtl. *)
PPSeq(modes, as, d, o, st, rtl) ==
    InOrder(PPSeqOver(modes, as, d, o, [fs |-> <<>>, st |-> st],
                      [k \in DOMAIN as |-> IF rtl THEN Len(as) - k + 1 ELSE k]), rtl)

(* pp_child on each argument in order (line 765). *)
PPArgs(as, d, o, st) == PPSeq([j \in DOMAIN as |-> ChildMode], as, d, o, st, FALSE)

(* The notation branch of pp_app, lines 681-739: the arguments of mk_infix *)
(* in the build's order, the others in order.                             *)
PPNotation(op, n, args, d, o, st) ==
    OpOut(n, PPSeq(NotationModes(op, Len(args)), args, d, o, st,
                   o.rtl /\ op.fx \in {"Infix", "Infixl", "Infixr"}))

AppOut(ph, pa) == Out(FApp(<<ph.f>> \o pa.fs), pa.st)

(* pp_app, lines 672-776, and application, lines 580-650: the implicit    *)
(* arguments of a constant head are hidden, unless pp.implicit is set or *)
(* there are too few arguments, when the explicit version is printed     *)
(* with all of them.  A constant head other than exists is printed by    *)
(* name, uncounted.  exists A p is printed as a quantifier (line 745).    *)
PPApp(e, d, o, st) ==
    LET f      == e.as[1]
        args   == Tail(e.as)
        impl   == f.k = "Const" /\ HasImplicit(f.n, st)
        expose == impl /\ (o.implicit \/ Len(args) < Len(ImplicitArgs[f.n]))
        head   == IF expose THEN Const(ExplicitName(f.n)) ELSE f
        shown  == IF impl /\ ~expose THEN ExplicitArgs(args, ImplicitArgs[f.n]) ELSE args
        op     == GetOperator(e, st)
    IN IF ~o.coercion /\ IsCoercion(e) THEN PP(e.as[2], d, o, st)
       ELSE IF o.notation /\ ~expose /\ op # NoOp /\ HasExpectedNumArgs(Len(shown), op)
       THEN PPNotation(op, f.n, shown, d, o, st)
       ELSE IF o.notation /\ IsExistsExpr(e) THEN PPExists(e, d, o, st)
       ELSE AppWithHead(IF head.k = "Const" /\ head.n # ExistsName
                        THEN Out(FName(head.n), st) ELSE PPChild(head, d, o, st), shown, d, o)

(* The printed head ph, then the arguments shown by pp_child. *)
AppWithHead(ph, shown, d, o) == AppOut(ph, PPArgs(shown, d, o, ph.st))

(* The printed domains fs, then the printed body pb, as nested arrows. *)
ChainArrows(fs, pb) ==
    LET arr[j \in 1..Len(fs) + 1] == IF j > Len(fs) THEN pb.f ELSE FArrow(fs[j], arr[j + 1])
    IN Out(arr[1], pb.st)

ArrowsThenBody(ds, b, d, o) == ChainArrows(ds.fs, PPChildAs(ArrowChild, b, d, o, ds.st))

(* The domains of the binders from i on, then the body, as arrows (the   *)
(* loop of lines 988-1000).                                                *)
PPArrowTail(bs, i, b, d, o, st) ==
    ArrowsThenBody(PPSeq([j \in 1..Len(bs) - i + 1 |-> ArrowChild],
                         [j \in 1..Len(bs) - i + 1 |-> bs[i + j - 1].d], d, o, st, FALSE), b, d, o)

Finish(r, res) == [r EXCEPT !.done = TRUE, !.body = res.f, !.st = res.st]

AddBlock(r, j, pd, bs, ia) ==
    [r EXCEPT !.i = j, !.st = pd.st,
        !.blocks = Append(@, [ns |-> [x \in 1..(j - r.i) |-> bs[r.i + x - 1].n], d |-> pd.f,
                              imp |-> IsImplicitAt(ia, r.i)])]

(* The binder blocks (lines 973-1024): past the arrow start the rest is   *)
(* printed as arrows; before it the run of binders with equal domains is  *)
(* one block.  Each round handles one block, the tail or the body.        *)
PPBlocks(bs, start, b, d, o, st, ia) ==
    BlocksFrom(bs, start, b, d, o, ia, [i |-> 1, blocks |-> <<>>, body |-> None, st |-> st, done |-> FALSE])

(* The rounds from the state r on, until one has printed the body. *)
BlocksFrom(bs, start, b, d, o, ia, r) ==
    IF r.done THEN r
    ELSE BlocksFrom(bs, start, b, d, o, ia,
            CASE r.i > Len(bs)   -> Finish(r, PPScopedChild(b, d, o, r.st, 0))
              [] r.i > start     -> Finish(r, PPArrowTail(bs, r.i, b, d, o, r.st))
              [] OTHER           -> AddBlock(r, GroupEnd(bs, r.i, r.i + 1, ia),
                                             PPScopedChild(bs[r.i].d, d, o, r.st, 0), bs, ia))

(* All binders in one block (lines 958-972): the domain, then the body. *)
PPOneBlock(c, d, o, st) ==
    OneBlockWithDomain(c, PPScopedChild(c.bs[1].d, d, o, st, 0), d, o)

OneBlockWithDomain(c, pd, d, o) ==
    Finish([blocks |-> <<[ns |-> [j \in DOMAIN c.bs |-> c.bs[j].n], d |-> pd.f, imp |-> FALSE]>>,
            body |-> None, st |-> pd.st, done |-> FALSE],
           PPScopedChild(c.b, d, o, pd.st, 0))

(* The head and separator of lines 936-957: "fun blocks, body", with T  *)
(* "blocks : T := body", with implicit_args only "blocks : body".         *)
AbstractionOut(k, T, tf, bl, ia) ==
    CASE T # None  -> Out([k |-> "FDef", blocks |-> bl.blocks, t |-> tf.f, b |-> bl.body], bl.st)
      [] ia # None -> Out(FSig(bl.blocks, bl.body), bl.st)
      [] OTHER     -> Out(FBinder(k, bl.blocks, bl.body), bl.st)

PPWithT(k, c, tf, start, d, o, ia) ==
    AbstractionOut(k, c.T, tf,
        IF c.bs # <<>> /\ AllSameDomain(c.bs) /\ ia = None THEN PPOneBlock(c, d, o, tf.st)
        ELSE PPBlocks(c.bs, start, c.b, d, o, tf.st, ia), ia)

(* The binders collected in c: T, when given, is printed first, in a    *)
(* scope of its own (pp_scoped_child of T at depth 0, line 949).          *)
PPCollected(k, c, start, d, o, ia) ==
    PPWithT(k, c, IF c.T = None THEN Out(None, c.st) ELSE PPChildAs(ScopedMode(0), c.T, 0, o, c.st), start, d, o, ia)

ProductOut(lf, pr) == Out(FProduct(lf, pr.f), pr.st)

(* The printed domain l of an arrow or a product, then its body. *)
ArrowWithDomain(l, b, d, o) == ChainArrows(<<l.f>>, PPChildAs(ArrowBody, b, d, o, l.st))

ProductWithDomain(l, b, d, o) == ProductOut(l.f, PPChildAs(CartesianBody, b, d, o, l.st))

(* pp_abstraction_core, lines 911-1030: without implicit_args ia an     *)
(* arrow, a cartesian product A # B (lines 923-929), or the collected     *)
(* binders, all in one block when their domains are equal; with ia no    *)
(* arrow and no single block, and each block has one implicit mark.      *)
(* With T (a compact definition) T is printed first, after the names are *)
(* chosen.                                                                 *)
PPAbstractionCore(e, d, o, st, T, ia) ==
    CASE IsArrow(e) /\ ia = None ->
            ArrowWithDomain(PPChildAs(ArrowChild, e.d, d, o, st), e.b, d, o)
      [] IsCartesian(e) /\ ia = None ->
            ProductWithDomain(PPChildAs(CartesianChild, e.d, d, o, st), e.b, d, o)
      [] OTHER -> PPCollected(e.k, CollectNested(e, T, e.k, st),
                              IF ia = None THEN ArrowStartingAt(e) ELSE NoArrow, d, o, ia)

LetOut(c, pv, pb) == Out(FLet([j \in DOMAIN c.bs |-> [n |-> c.bs[j].n, v |-> pv.fs[j]]], pb.f), pb.st)

LetThenBody(c, pv, d, o) == LetOut(c, pv, PPScopedChild(c.b, d + 1, o, pv.st, 0))

(* The values of the collected lets at depth + 2, then the body. *)
PPLetCollected(c, d, o) ==
    LetThenBody(c, PPSeq([j \in DOMAIN c.bs |-> ScopedMode(0)],
                         [j \in DOMAIN c.bs |-> c.bs[j].v], d + 1, o, c.st, FALSE), d, o)

(* pp_let, lines 1048-1076. *)
PPLet(e, d, o, st) == PPLetCollected(CollectNestedLet(e, st), d, o)

HEqOut(pa) == Out(FHEq(pa.fs[1], pa.fs[2]), pa.st)

(* pp_heq, lines 1161-1166: both sides by pp_child. *)
PPHEq(e, d, o, st) == HEqOut(PPArgs(e.as, d, o, st))

PairOut(pa) == Out(FPair(pa.fs[1], pa.fs[2], IF Len(pa.fs) = 3 THEN pa.fs[3] ELSE None), pa.st)

(* pp_pair, lines 1123-1142: both components, then the type unless it is *)
(* a cartesian product.                                                    *)
PPPair(e, d, o, st) ==
    PairOut(PPArgs(IF IsCartesian(e.as[3]) THEN SubSeq(e.as, 1, 2) ELSE e.as, d, o, st))

(* Seeded bug, caught by RoundTrip: proj1 nodes are skipped by the loop  *)
(* as well.                                                                *)
RECURSIVE ProjInnerAny(_, _)
ProjInnerAny(a, i) ==
    IF a.as[1].k = "Proj" THEN ProjInnerAny(a.as[1], i + 1) ELSE [a |-> a.as[1], i |-> i]

(* The while loop of pp_proj (lines 1146-1149): the run of proj2 under a *)
(* is skipped and counted; the argument after them.                       *)
RECURSIVE ProjInner(_, _)
ProjInner(a, i) ==
    IF a.as[1].k = "Proj" /\ ~a.as[1].first THEN ProjInner(a.as[1], i + 1)
    ELSE [a |-> a.as[1], i |-> i]

ProjOut(first, i, pa) == Out(FProj(first, i, pa.f), pa.st)

(* pp_proj, lines 1144-1159: proj1 or proj2 by the outer projection, the *)
(* count of the skipped proj2, then the argument by pp_child.              *)
PPProj(e, d, o, st) ==
    ProjOut(e.first, ProjInner(e, 0).i, PPChild(ProjInner(e, 0).a, d, o, st))

ExistsOut(bl) == Out(FBinder("Exists", bl.blocks, bl.body), bl.st)

PPExistsCollected(c, d, o) ==
    ExistsOut(IF AllSameDomain(c.bs) THEN PPOneBlock(c, d, o, c.st)
              ELSE PPBlocks(c.bs, NoArrow, c.b, d, o, c.st, None))

(* pp_exists, lines 397-440: the collected quantifiers in one block when *)
(* their domains are equal, else in blocks of equal domains.               *)
PPExists(e, d, o, st) == PPExistsCollected(CollectNestedQuantifiers(e, st), d, o)

(* pp_child, lines 355-360. *)
PPChild(e, d, o, st) == PPChildAs(ChildMode, e, d, o, st)

(* pp_scoped_child, lines 797-827, at precedence prec: an atomic e is    *)
(* printed as the root of no scope; otherwise e is a new scope whose     *)
(* m_num_occs counts the sub-terms of e (mk_scope, lines 201-238).       *)
PPScopedChild(e, d, o, st, prec) ==
    IF IsAtomic(e, o) THEN PPAt(e, d + 1, o, st, TRUE)
    ELSE ScopeExit(e, o, st, prec,
                   PPAt(e, d + 1, o, [st EXCEPT !.occs = IF o.lets THEN SeveralOccs(e) ELSE {}], TRUE))

(* pp_var, lines 289-292. *)
PPVar(e) == FVar(e.i)

(* pp, lines 1168-1217: past the step or depth budget a non-atomic term  *)
(* is an ellipsis; otherwise the step is counted, a sub-term counted more *)
(* than once that has an alias is printed as its name, and any other term *)
(* is printed by kind and may get an alias; pp_var (lines 289-292) prints *)
(* "#i".  main is set for the root of a scope.                             *)
PPAt(e, d, o, st, main) ==
    LET s1 == [st EXCEPT !.steps = @ + 1]
    IN IF ~IsAtomic(e, o) /\ (st.steps > o.maxSteps \/ d > o.maxDepth) THEN Out(FEllipsis, st)
       ELSE IF o.lets /\ e \in st.occs /\ \E p \in st.aliases : p[1] = e THEN Out(FName(AliasOf(e, st)), s1)
       ELSE MkAlias(e, o, main,
                CASE e.k = "Var"   -> Out(PPVar(e), s1)
                  [] e.k = "Const" -> Out(PPConstant(e.n, s1), s1)
                  [] e.k = "App"   -> PPApp(e, d, o, s1)
                  [] e.k = "Let"   -> PPLet(e, d, o, s1)
                  [] e.k = "HEq"   -> PPHEq(e, d, o, s1)
                  [] e.k = "Pair"  -> PPPair(e, d, o, s1)
                  [] e.k = "Proj"  -> PPProj(e, d, o, s1)
                  [] OTHER         -> PPAbstractionCore(e, d, o, s1, None, None))

PP(e, d, o, st) == PPAt(e, d, o, st, FALSE)

-----------------------------------------------------------------------------
(* The entry points of pp_fn and pp_formatter_cell.                       *)

(* pp_fn::operator(), lines 1270-1273: init resets the steps, a fresh    *)
(* pp_fn starts with no local names.                                      *)
PpExpr(e, o) == PPScopedChild(e, 0, o, InitSt(St0, e), 0).f

(* pp_fn::pp_definition, lines 1275-1278. *)
PpFnDefinition(v, t, ia, o) == PPAbstractionCore(v, 0, o, InitSt(St0, App(<<v, t>>)), t, ia).f

(* pp_fn::pp_pi_with_implicit_args, lines 1280-1283. *)
PpPiWithImplicitArgs(e, m, o) == PPAbstractionCore(e, 0, o, InitSt(St0, e), None, Mask(m)).f

(* The implicit_args of the declaration named n (has_implicit_arguments, *)
(* get_implicit_arguments of the environment).                            *)
ImplicitArgsOf(n) == IF n \in DOMAIN ImplicitArgs THEN Mask(ImplicitArgs[n]) ELSE None

(* The prefix of Pis of t and Lambdas of v with equal domains, followed  *)
(* by no further Pi of t (the loop and test of lines 1351-1360).          *)
RECURSIVE CompactPrefix(_, _)
CompactPrefix(it1, it2) ==
    IF it1.k = "Pi" /\ it2.k = "Lambda"
    THEN AlphaEq(it1.d, it2.d) /\ CompactPrefix(it1.b, it2.b)
    ELSE it1.k # "Pi"

(* pp_formatter_cell::pp_definition, lines 1337-1349: type and value    *)
(* apart, the value only with pp.definition_value.                        *)
PpFullDefinition(t, v, o) ==
    [k |-> "FFullDef", t |-> PpExpr(t, o), v |-> IF o.defval THEN PpExpr(v, o) ELSE None]

(* pp_compact_definition, lines 1351-1379: with pp.definition_value the  *)
(* compact form of pp_fn::pp_definition, else the type alone, with its   *)
(* implicit arguments marked when the name has some.                       *)
PpCompactDefinition(n, t, v, o) ==
    CASE ~(v.k = "Lambda" /\ CompactPrefix(t, v)) -> PpFullDefinition(t, v, o)
      [] o.defval -> PpFnDefinition(v, t, ImplicitArgsOf(n), o)
      [] n \in DOMAIN ImplicitArgs -> PpPiWithImplicitArgs(t, ImplicitArgs[n], o)
      [] OTHER -> FSig(<<>>, PpExpr(t, o))

(* pp_formatter_cell::pp_definition(object), lines 1405-1415: the       *)
(* explicit version @n of a name is printed with pp.implicit off.          *)
PpDefinitionObject(n, t, v, o) ==
    PpCompactDefinition(n, t, v, IF Len(n) > 1 /\ n[1] = "@" THEN [o EXCEPT !.implicit = FALSE] ELSE o)

(* pp_postulate, lines 1386-1397: "n : t", the binders of t in blocks   *)
(* marked implicit or not when n has implicit arguments.                   *)
PpPostulate(n, t, o) ==
    IF n \in DOMAIN ImplicitArgs THEN PpPiWithImplicitArgs(t, ImplicitArgs[n], o)
    ELSE FSig(<<>>, PpExpr(t, o))

(* context_to_lambda: each entry [n, d] of c, outermost first, becomes a *)
(* fake lambda around e.                                                  *)
RECURSIVE CtxToLambda(_, _)
CtxToLambda(c, e) ==
    IF c = <<>> THEN e ELSE Bind("Ctx", Head(c).n, Head(c).d, CtxToLambda(Tail(c), e))

(* The loop over the fake context (lines 1304-1322 and 1456-1462): an    *)
(* unused name for each entry, registered as local, its domain printed by *)
(* a call of the same pp_fn when full (format_ctx), the rest renamed.      *)
(* The domain of the entry c2, in the state s1 where its name is local. *)
CtxDomain(c2, o, full, s1) ==
    IF full THEN PPScopedChild(c2.d, 0, o, InitSt(s1, c2.d), 0) ELSE Out(None, s1)

ConsEntry(n1, pd, r) == [r EXCEPT !.es = <<[n |-> n1, d |-> pd.f]>> \o @]

RECURSIVE PPCtxEntries(_, _, _, _), CtxRest(_, _, _, _, _)
PPCtxEntries(c2, o, st, full) ==
    IF c2.k # "Ctx" THEN [es |-> <<>>, rest |-> c2, st |-> st]
    ELSE CtxRest(c2, o, full, GetUnusedName(c2),
                 CtxDomain(c2, o, full, [st EXCEPT !.names = @ \cup {GetUnusedName(c2)}]))

(* The entry n1 with printed domain pd, then the entries after it. *)
CtxRest(c2, o, full, n1, pd) ==
    ConsEntry(n1, pd, PPCtxEntries(ReplaceVarWithName(c2.b, n1), o, pd.st, full))


(* pp_formatter_cell::operator()(context, e, format_ctx), lines 1296-1334 *)
(* and 1451-1464: e is printed by the pp_fn that named the context.        *)
CtxOut(r, o) == [k |-> "FCtx", es |-> r.es, f |-> PPScopedChild(r.rest, 0, o, InitSt(r.st, r.rest), 0).f]

PpInContext(c, e, o, full) == CtxOut(PPCtxEntries(CtxToLambda(c, e), o, St0, full), o)

-----------------------------------------------------------------------------
(* One call of the formatter.  Each call builds its own pp_fn, so a call *)
(* depends on its arguments and options only, and one call per behaviour *)
(* covers every call.                                                      *)

VARIABLES
    req,  \* the last call: its kind, arguments and options
    out   \* the syntax of the format it returned

vars == <<req, out>>

PrintExpr(e, o) ==
    /\ req' = [k |-> "expr", e |-> e, o |-> o]
    /\ out' = PpExpr(e, o)

PrintInContext(c, e, o, full) ==
    /\ req' = [k |-> IF full THEN "ctxfull" ELSE "ctx", c |-> c, e |-> e, o |-> o]
    /\ out' = PpInContext(c, e, o, full)

(* operator()(object), lines 1473-1478: a Definition, and a Postulate  *)
(* or Builtin (printed alike).                                            *)
PrintDefinition(n, t, v, o) ==
    /\ req' = [k |-> "def", n |-> n, t |-> t, v |-> v, o |-> o]
    /\ out' = PpDefinitionObject(n, t, v, o)

PrintPostulate(n, t, o) ==
    /\ req' = [k |-> "post", n |-> n, t |-> t, o |-> o]
    /\ out' = PpPostulate(n, t, o)

Init == req = [k |-> "none"] /\ out = None

Next ==
    req.k = "none" /\ \E o \in OptionSet :
        \/ \E e \in ExprInputs : PrintExpr(e, o)
        \/ \E ce \in CtxInputs, full \in BOOLEAN : PrintInContext(ce.c, ce.e, o, full)
        \/ \E td \in DefInputs : PrintDefinition(td.n, td.t, td.v, o)
        \/ \E pd \in PostInputs : PrintPostulate(pd.n, pd.t, o)

Spec == Init /\ [][Next]_vars

-----------------------------------------------------------------------------
(* A reader of the printed syntax: the reference the printer is checked  *)
(* against.  A name resolves to the innermost binder of that name in      *)
(* scope sc (innermost last), else to a global constant; "#i" is the      *)
(* free variable i of the whole term; the elaborator fills the implicit  *)
(* arguments of a global constant given without "@" with Holes; the     *)
(* names of a block "(x y : A)" all take A, read once before x.           *)

NoName == <<"_">>

Bound(n, sc) == \E j \in DOMAIN sc : sc[j] = n

Innermost(n, sc) == CHOOSE j \in DOMAIN sc : sc[j] = n /\ \A m \in DOMAIN sc : sc[m] = n => m <= j

IsExplicitName(n) == Len(n) > 1 /\ n[1] = "@"

GlobalImplicit(n, sc) == ~Bound(n, sc) /\ n \in DOMAIN ImplicitArgs

(* The arguments args placed at the explicit positions of mask m. *)
RECURSIVE Weave(_, _)
Weave(m, args) ==
    IF m = <<>> THEN args
    ELSE IF Head(m) THEN <<Hole>> \o Weave(Tail(m), args)
    ELSE IF args = <<>> THEN <<>>
    ELSE <<Head(args)>> \o Weave(Tail(m), Tail(args))

ReadName(n, sc) ==
    IF Bound(n, sc) THEN Var(Len(sc) - Innermost(n, sc))
    ELSE IF n = ExistsAlias THEN Const(ExistsName)
    ELSE IF IsExplicitName(n) THEN Const(Tail(n))
    ELSE IF GlobalImplicit(n, sc) /\ Weave(ImplicitArgs[n], <<>>) # <<>>
    THEN App(<<Const(n)>> \o Weave(ImplicitArgs[n], <<>>))
    ELSE Const(n)

(* a under i proj2. *)
RECURSIVE UnderProj2(_, _)
UnderProj2(a, i) == IF i = 0 THEN a ELSE Proj(FALSE, UnderProj2(a, i - 1))

RECURSIVE Read(_, _), ReadBlocks(_, _, _, _), ReadNames(_, _, _, _, _, _, _), ReadLets(_, _, _)

Read(f, sc) ==
    LET ReadSeq(fs) == [j \in DOMAIN fs |-> Read(fs[j], sc)]
    IN CASE f.k = "FEllipsis" -> Hole
         [] f.k = "FVar"      -> Var(f.i + Len(sc))
         [] f.k = "FName"     -> ReadName(f.n, sc)
         [] f.k = "FApp"      ->
               IF f.fs[1].k = "FName" /\ GlobalImplicit(f.fs[1].n, sc)
               THEN App(<<Const(f.fs[1].n)>> \o Weave(ImplicitArgs[f.fs[1].n], ReadSeq(Tail(f.fs))))
               ELSE App(ReadSeq(f.fs))
         [] f.k = "FParen"    -> Read(f.f, sc)
         [] f.k = "FOp"       -> Read(FApp(<<FName(f.n)>> \o f.fs), sc)
         [] f.k = "FArrow"    -> Bind("Pi", NoName, Read(f.d, sc), Read(f.b, Append(sc, NoName)))
         [] f.k = "FBinder"   -> ReadBlocks(f.kd, f.blocks, f.b, sc)
         [] f.k = "FLet"      -> ReadLets(f.bs, f.b, sc)
         [] f.k = "FHEq"      -> HEq(Read(f.l, sc), Read(f.r, sc))
         [] f.k = "FPair"     -> Pair(Read(f.a, sc), Read(f.b, sc),
                                      IF f.t = None THEN Hole ELSE Read(f.t, sc))
         [] f.k = "FProj"     -> Proj(f.first, UnderProj2(Read(f.a, sc), f.i))
         [] f.k = "FProduct"  -> Bind("Sigma", NoName, Read(f.d, sc), Read(f.b, Append(sc, NoName)))

ReadBlocks(kd, blocks, body, sc) ==
    IF blocks = <<>> THEN Read(body, sc)
    ELSE ReadNames(kd, Head(blocks).ns, Read(Head(blocks).d, sc), 0, Tail(blocks), body, sc)

(* A binder of kind Exists reads as exists A (fun x : A, ...). *)
ReadNames(kd, ns, dom, j, blocks, body, sc) ==
    IF j = Len(ns) THEN ReadBlocks(kd, blocks, body, sc)
    ELSE LET inner == ReadNames(kd, ns, dom, j + 1, blocks, body, Append(sc, ns[j + 1]))
             bind  == Bind(IF kd = "Exists" THEN "Lambda" ELSE kd, ns[j + 1], Lift(dom, 0, j), inner)
         IN IF kd = "Exists" THEN App(<<Const(ExistsName), Lift(dom, 0, j), bind>>) ELSE bind

ReadLets(bs, body, sc) ==
    IF bs = <<>> THEN Read(body, sc)
    ELSE Let(Head(bs).n, Read(Head(bs).v, sc), ReadLets(Tail(bs), body, Append(sc, Head(bs).n)))

EntryNames(es) == [j \in DOMAIN es |-> es[j].n]

(* b with its variable k replaced by v (v read k binders further out). *)
RECURSIVE SubstAt(_, _, _)
SubstAt(b, v, k) ==
    CASE b.k = "Var"   -> IF b.i = k THEN Lift(v, 0, k) ELSE IF b.i > k THEN Var(b.i - 1) ELSE b
      [] b.k \in SeqKinds -> [b EXCEPT !.as = [j \in DOMAIN @ |-> SubstAt(@[j], v, k)]]
      [] b.k \in BinderKinds -> Bind(b.k, b.n, SubstAt(b.d, v, k), SubstAt(b.b, v, k + 1))
      [] b.k = "Let"   -> Let(b.n, SubstAt(b.v, v, k), SubstAt(b.b, v, k + 1))
      [] OTHER         -> b

(* The names of the constants, binders and lets of e. *)
RECURSIVE NamesOf(_)
NamesOf(e) ==
    CASE e.k = "Const" -> {e.n}
      [] e.k \in SeqKinds -> UNION {NamesOf(e.as[j]) : j \in DOMAIN e.as}
      [] e.k \in BinderKinds -> {e.n} \cup NamesOf(e.d) \cup NamesOf(e.b)
      [] e.k = "Let"   -> {e.n} \cup NamesOf(e.v) \cup NamesOf(e.b)
      [] OTHER         -> {}

(* A let the reader did not get from the term: its name is p.i with p    *)
(* the prefix of none of the names N of the term.                          *)
IsAliasLet(n, N) == Len(n) > 1 /\ \A m \in N : ~Seqs!IsPrefix(Seqs!Front(n), m)

(* r with every alias let expanded: the term the text stands for. *)
RECURSIVE Unalias(_, _)
Unalias(r, N) ==
    CASE r.k = "Let" /\ IsAliasLet(r.n, N) -> SubstAt(Unalias(r.b, N), Unalias(r.v, N), 0)
      [] r.k \in SeqKinds -> [r EXCEPT !.as = [j \in DOMAIN @ |-> Unalias(@[j], N)]]
      [] r.k \in BinderKinds -> Bind(r.k, r.n, Unalias(r.d, N), Unalias(r.b, N))
      [] r.k = "Let"   -> Let(r.n, Unalias(r.v, N), Unalias(r.b, N))
      [] OTHER         -> r

(* The printed context entries read back give the context c. *)
ContextReadsBack(c, es, N) ==
    \A j \in DOMAIN c : Matches(Unalias(Read(es[j].d, SubSeq(EntryNames(es), 1, j - 1)), N), c[j].d)

(* The names a call prints may not use for aliases: those of the term,  *)
(* of the context and of the names chosen for the context.               *)
ReqNames(r, f) ==
    CASE r.k = "expr" -> NamesOf(r.e)
      [] r.k \in {"ctx", "ctxfull"} ->
            NamesOf(CtxToLambda(r.c, r.e)) \cup {f.es[j].n : j \in DOMAIN f.es}
      [] r.k = "def" -> NamesOf(r.t) \cup NamesOf(r.v)
      [] r.k = "post" -> NamesOf(r.t)
      [] OTHER -> {}

-----------------------------------------------------------------------------
(* Properties. *)

(* e with every exists A p whose p is not a lambda in the normal form   *)
(* exists A (fun x : A, p x) the comment of collect_nested_quantifiers   *)
(* gives (lines 386-389): the term the printed quantifier stands for.     *)
RECURSIVE ExistsNF(_)
ExistsNF(e) ==
    CASE IsExistsExpr(e) /\ e.as[3].k # "Lambda" ->
            App(<<e.as[1], ExistsNF(e.as[2]),
                  Bind("Lambda", <<"x">>, ExistsNF(e.as[2]),
                       MkApp2(Lift(ExistsNF(e.as[3]), 0, 1), Var(0)))>>)
      [] e.k \in SeqKinds    -> [e EXCEPT !.as = [j \in DOMAIN @ |-> ExistsNF(@[j])]]
      [] e.k \in BinderKinds -> Bind(e.k, e.n, ExistsNF(e.d), ExistsNF(e.b))
      [] e.k = "Let"         -> Let(e.n, ExistsNF(e.v), ExistsNF(e.b))
      [] OTHER               -> e

RECURSIVE WellFormed(_)
WellFormed(f) ==
    CASE f.k = "FApp"    -> Len(f.fs) >= 1 /\ \A j \in DOMAIN f.fs : WellFormed(f.fs[j])
      [] f.k \in {"FArrow", "FProduct"} -> WellFormed(f.d) /\ WellFormed(f.b)
      [] f.k = "FHEq"    -> WellFormed(f.l) /\ WellFormed(f.r)
      [] f.k = "FParen"  -> WellFormed(f.f)
      [] f.k = "FOp"     -> f.n \in DOMAIN Notation /\ Len(f.fs) >= 1
                            /\ \A j \in DOMAIN f.fs : WellFormed(f.fs[j])
      [] f.k = "FPair"   -> WellFormed(f.a) /\ WellFormed(f.b) /\ WellFormed(f.t)
      [] f.k = "FProj"   -> f.i \in Nat /\ WellFormed(f.a)
      [] f.k \in {"FBinder", "FDef", "FSig"} ->
            /\ f.k # "FSig" => Len(f.blocks) >= 1
            /\ \A j \in DOMAIN f.blocks : Len(f.blocks[j].ns) >= 1 /\ WellFormed(f.blocks[j].d)
            /\ WellFormed(f.b)
            /\ f.k = "FDef" => WellFormed(f.t)
      [] f.k = "FLet"    -> Len(f.bs) >= 1 /\ WellFormed(f.b)
                            /\ \A j \in DOMAIN f.bs : WellFormed(f.bs[j].v)
      [] f.k = "FCtx"    -> WellFormed(f.f) /\ \A j \in DOMAIN f.es : WellFormed(f.es[j].d)
      [] f.k = "FFullDef" -> WellFormed(f.t) /\ WellFormed(f.v)
      [] OTHER           -> f.k \in {"FVar", "FName", "FEllipsis", "None"}

(* e with every coercion c a written as a: the term a reader of output  *)
(* with coercions hidden (pp.coercion off) recovers, the elaborator       *)
(* putting the coercions back.                                             *)
RECURSIVE Uncoerced(_, _)
Uncoerced(e, o) ==
    CASE ~o.coercion /\ IsCoercion(e) -> Uncoerced(e.as[2], o)
      [] e.k \in SeqKinds    -> [e EXCEPT !.as = [j \in DOMAIN @ |-> Uncoerced(@[j], o)]]
      [] e.k \in BinderKinds -> Bind(e.k, e.n, Uncoerced(e.d, o), Uncoerced(e.b, o))
      [] e.k = "Let"         -> Let(e.n, Uncoerced(e.v, o), Uncoerced(e.b, o))
      [] OTHER               -> e

(* The term the text of e stands for: without coercions when they are  *)
(* hidden, with exists in its normal form when notation prints it as a  *)
(* quantifier.                                                             *)
Printed(e, o) == IF o.notation THEN ExistsNF(Uncoerced(e, o)) ELSE Uncoerced(e, o)

(* Every printed binder block and let has at least one name, and every   *)
(* application a function.                                                *)
TypeOK ==
    /\ req.k \in {"none", "expr", "ctx", "ctxfull", "def", "post"}
    /\ WellFormed(out)

(* What the printer promises its reader: the printed text, read back in  *)
(* the names it chose, is the term that was printed, up to binder names, *)
(* implicit arguments and what an ellipsis stands for.  Checked for      *)
(* operator()(e), for a term printed under a named context (with and    *)
(* without the context itself) and for the value of a definition; it is *)
(* about get_unused_name, replace_var_with_name, the grouping of binders *)
(* and the arrow tail of pp_abstraction_core, and m_local_names.         *)
ReadsBackAs(f) ==
    LET N == ReqNames(req, f)
    IN CASE req.k = "expr" -> Matches(Unalias(Read(f, <<>>), N), Printed(req.e, req.o))
         [] req.k \in {"ctx", "ctxfull"} ->
               /\ Matches(Unalias(Read(f.f, EntryNames(f.es)), N), req.e)
               /\ req.k = "ctxfull" => ContextReadsBack(req.c, f.es, N)
         [] req.k = "def" /\ f.k = "FDef" ->
               Matches(Unalias(ReadBlocks("Lambda", f.blocks, f.b, <<>>), N), req.v)
         [] req.k = "def" /\ f.k = "FFullDef" ->
               /\ Matches(Unalias(Read(f.t, <<>>), N), req.t)
               /\ f.v # None => Matches(Unalias(Read(f.v, <<>>), N), req.v)
         [] req.k \in {"def", "post"} ->
               Matches(Unalias(ReadBlocks("Pi", f.blocks, f.b, <<>>), N), req.t)
         [] OTHER -> TRUE

RoundTrip == ReadsBackAs(out)

-----------------------------------------------------------------------------
(* The precedence grammar a reader parses the text with.  An operator of *)
(* fixity fx and precedence p takes, at an open end, an operand printed  *)
(* without parentheses only if the operand binds tighter, or equally     *)
(* tight with the same fixity on the side that chains (left for infixl,  *)
(* right for infixr and prefix); an arrow and a cartesian product are    *)
(* infixr.  Binders and lets extend to the right as far as they can.     *)
(* Operand positions between two tokens of a mixfix operator are closed. *)

Level(f) ==
    CASE f.k = "FOp"                 -> Notation[f.n].prec
      [] f.k = "FArrow"              -> Prec.arrow
      [] f.k = "FProduct"            -> Prec.cartesian
      [] f.k = "FHEq"                -> Prec.heq
      [] f.k \in {"FBinder", "FLet"} -> 0
      [] f.k = "FPair"               -> IF f.t = None THEN Prec.app ELSE 0
      [] OTHER                       -> Prec.app

Fixity(f) ==
    CASE f.k = "FOp"                     -> Notation[f.n].fx
      [] f.k \in {"FArrow", "FProduct"} -> "Infixr"
      [] OTHER                           -> "None"

(* Operand j of n of an operator of fixity fx lies between two tokens. *)
Closed(fx, j, n) ==
    \/ fx = "Mixfixc"
    \/ (fx = "Mixfixl" /\ j < n)
    \/ (fx = "Mixfixr" /\ j > 1)
    \/ (fx = "Mixfixo" /\ 1 < j /\ j < n)

Binds(p, fx, j, n, c) ==
    \/ Closed(fx, j, n) \/ c.k = "FParen" \/ Level(c) > p
    \/ /\ Level(c) = p /\ Fixity(c) = fx
       /\ \/ fx = "Infixl" /\ j = 1
          \/ fx \in {"Infixr", "Prefix"} /\ j = n

(* An argument of an application, of a projection or of a pair is a name, *)
(* a variable, an ellipsis or parenthesised.                               *)
ArgForm(c) == c.k \in {"FName", "FVar", "FEllipsis", "FParen"}

(* A binder or let as the last operand reaches the end of the text, as  *)
(* it should, when nothing follows the application (open is FALSE).       *)
Operand(p, fx, j, n, c, open) ==
    Binds(p, fx, j, n, c) \/ (j = n /\ ~open /\ c.k \in {"FBinder", "FLet"})

(* f parses as the tree it is; open tells whether more text follows f    *)
(* before a closing token.                                                 *)
RECURSIVE ParsesIn(_, _)
ParsesIn(f, open) ==
    CASE f.k = "FOp" ->
            \A j \in DOMAIN f.fs :
                /\ Operand(Level(f), Fixity(f), j, Len(f.fs), f.fs[j], open)
                /\ ParsesIn(f.fs[j], IF j = Len(f.fs) THEN open ELSE ~Closed(Fixity(f), j, Len(f.fs)))
      [] f.k \in {"FArrow", "FProduct"} ->
            /\ Binds(Level(f), "Infixr", 1, 2, f.d) /\ Operand(Level(f), "Infixr", 2, 2, f.b, open)
            /\ ParsesIn(f.d, TRUE) /\ ParsesIn(f.b, open)
      [] f.k = "FHEq" ->
            Binds(Prec.heq, "Infix", 1, 2, f.l) /\ Operand(Prec.heq, "Infix", 2, 2, f.r, open)
            /\ ParsesIn(f.l, TRUE) /\ ParsesIn(f.r, open)
      [] f.k = "FApp"   -> \A j \in DOMAIN f.fs : ArgForm(f.fs[j]) /\ ParsesIn(f.fs[j], TRUE)
      [] f.k = "FProj"  -> ArgForm(f.a) /\ ParsesIn(f.a, FALSE)
      [] f.k = "FPair"  -> ArgForm(f.a) /\ ArgForm(f.b) /\ ParsesIn(f.a, FALSE) /\ ParsesIn(f.b, FALSE)
                           /\ ParsesIn(f.t, FALSE)
      [] f.k = "FParen" -> ParsesIn(f.f, FALSE)
      [] f.k \in {"FBinder", "FDef", "FSig"} ->
            /\ \A j \in DOMAIN f.blocks : ParsesIn(f.blocks[j].d, FALSE)
            /\ ParsesIn(f.b, open) /\ (f.k = "FDef" => ParsesIn(f.t, FALSE))
      [] f.k = "FLet"   -> ParsesIn(f.b, open) /\ \A j \in DOMAIN f.bs : ParsesIn(f.bs[j].v, FALSE)
      [] f.k = "FCtx"   -> ParsesIn(f.f, FALSE) /\ \A j \in DOMAIN f.es : ParsesIn(f.es[j].d, FALSE)
      [] f.k = "FFullDef" -> ParsesIn(f.t, FALSE) /\ ParsesIn(f.v, FALSE)
      [] OTHER          -> TRUE

(* A coercion hidden by the options around an operator application: it  *)
(* is printed as the operator application, at the precedence of the     *)
(* coercion application (lines 678 and 491).                               *)
RECURSIVE HidesCoercedOp(_, _)
HidesCoercedOp(e, o) ==
    \/ /\ ~o.coercion /\ o.notation /\ IsCoercion(e)
       /\ e.as[2].k = "App" /\ e.as[2].as[1].k = "Const" /\ e.as[2].as[1].n \in DOMAIN Notation
    \/ e.k \in SeqKinds /\ \E j \in DOMAIN e.as : HidesCoercedOp(e.as[j], o)
    \/ e.k \in BinderKinds /\ (HidesCoercedOp(e.d, o) \/ HidesCoercedOp(e.b, o))
    \/ e.k = "Let" /\ (HidesCoercedOp(e.v, o) \/ HidesCoercedOp(e.b, o))

(* The terms a call prints. *)
ReqTerms(r) ==
    CASE r.k = "expr"              -> {r.e}
      [] r.k \in {"ctx", "ctxfull"} -> {r.e} \cup {r.c[j].d : j \in DOMAIN r.c}
      [] r.k = "def"               -> {r.t, r.v}
      [] r.k = "post"              -> {r.t}
      [] OTHER                     -> {}

(* The parentheses pp_fn puts (pp_child, pp_mixfix_child, pp_infix_child, *)
(* pp_scoped_child with the precedence of pp_arrow_child and               *)
(* pp_cartesian_child) are enough: the text parses back with the tree it *)
(* was printed from.  The precedence pp_fn compares is that of the term  *)
(* (get_operator_precedence), the grammar reads that of the text.  The   *)
(* claim excludes a term with a hidden coercion around an operator       *)
(* application, where the two differ and the text regroups: coe (a + a)  *)
(* * a is printed a + a * a (a known disagreement, see README).           *)
TextParsesBack ==
    req.k # "none" /\ ~req.o.lets /\ ~(\E t \in ReqTerms(req) : HidesCoercedOp(t, req.o))
        => ParsesIn(out, FALSE)

(* The tree a reader builds from the text of f: a let printed without    *)
(* parentheses as the domain of an arrow or a product extends, as every   *)
(* let does, to the end of the text around it, so "let bs in r -> B" is  *)
(* read "let bs in (r -> B)".                                              *)
RECURSIVE LetsToRight(_)
LetsToRight(f) ==
    LET Rs(gs) == [j \in DOMAIN gs |-> LetsToRight(gs[j])]
        Rd(bl) == [j \in DOMAIN bl |-> [bl[j] EXCEPT !.d = LetsToRight(@)]]
        Rv(bs) == [j \in DOMAIN bs |-> [bs[j] EXCEPT !.v = LetsToRight(@)]]
    IN CASE f.k \in {"FArrow", "FProduct"} /\ f.d.k = "FLet" ->
              FLet(Rv(f.d.bs), LetsToRight([f EXCEPT !.d = f.d.b]))
         [] f.k \in {"FArrow", "FProduct"} -> [f EXCEPT !.d = LetsToRight(@), !.b = LetsToRight(@)]
         [] f.k \in {"FApp", "FOp"} -> [f EXCEPT !.fs = Rs(@)]
         [] f.k = "FParen"   -> [f EXCEPT !.f = LetsToRight(@)]
         [] f.k = "FHEq"     -> [f EXCEPT !.l = LetsToRight(@), !.r = LetsToRight(@)]
         [] f.k = "FPair"    -> [f EXCEPT !.a = LetsToRight(@), !.b = LetsToRight(@), !.t = LetsToRight(@)]
         [] f.k = "FProj"    -> [f EXCEPT !.a = LetsToRight(@)]
         [] f.k \in {"FBinder", "FSig"} -> [f EXCEPT !.blocks = Rd(@), !.b = LetsToRight(@)]
         [] f.k = "FDef"     -> [f EXCEPT !.blocks = Rd(@), !.t = LetsToRight(@), !.b = LetsToRight(@)]
         [] f.k = "FLet"     -> [f EXCEPT !.bs = Rv(@), !.b = LetsToRight(@)]
         [] f.k = "FCtx"     -> [f EXCEPT !.es = Rd(@), !.f = LetsToRight(@)]
         [] f.k = "FFullDef" -> [f EXCEPT !.t = LetsToRight(@), !.v = LetsToRight(@)]
         [] OTHER            -> f

(* With pp.extra_lets, a let block pp_scoped_child returns without     *)
(* parentheses (lines 809-825) reaches, when the text is read, as far     *)
(* right as it can: as an arrow domain it takes in the rest of the arrow. *)
(* Read with that scope, the printed term still stands for the input     *)
(* once the alias lets are expanded: no name of the rest of the arrow is  *)
(* captured by an alias the let defines (alias numbering across scopes,  *)
(* the prefix find_unused_prefix chooses).  The claim is about names; the *)
(* regrouping of an operator at the precedence of the arrow or below     *)
(* under the let is a known disagreement (see README).                     *)
AliasLetCapturesNothing == req.k # "none" /\ req.o.lets => ReadsBackAs(LetsToRight(out))

(* The implicit marks of the binders of the blocks bl, in order. *)
Marks(bl) == Seqs!FlattenSeq([j \in DOMAIN bl |-> [x \in DOMAIN bl[j].ns |-> bl[j].imp]])

(* A declaration printed with its binders in blocks declares, read back, *)
(* the implicit arguments the environment gives its name: a binder is in *)
(* braces exactly when the mask of get_implicit_arguments marks its      *)
(* position.  It is about the position counter arg_pos of                 *)
(* pp_abstraction_core (lines 976-1011) across blocks, the grouping of   *)
(* binders with equal domains, and pp_definition hiding nothing of the   *)
(* explicit version @n.                                                    *)
DeclImplicitArgsReadBack ==
    req.k \in {"def", "post"} /\ out.k \in {"FSig", "FDef"} =>
        LET ms == Marks(out.blocks)
        IN \A i \in DOMAIN ms :
              ms[i] = (req.n \in DOMAIN ImplicitArgs /\ i <= Len(ImplicitArgs[req.n]) /\ ImplicitArgs[req.n][i])

(* The type of a compact definition "(x : A) : B := C" read back is the  *)
(* type of the definition: B is read under the names collect_nested      *)
(* chose from the value (lines 783-795).                                 *)
DefTypeRoundTrip ==
    (req.k = "def" /\ out.k = "FDef") =>
        Matches(Unalias(ReadBlocks("Pi", out.blocks, out.t, <<>>), ReqNames(req, out)), req.t)

=============================================================================
