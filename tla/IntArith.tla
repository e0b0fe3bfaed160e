------------------------------- MODULE IntArith -------------------------------
(***************************************************************************)
(* The integer theory of the arithmetic library (src/unnamed/part_002,    *)
(* the int.cpp part): the values int, the numerals, the builtin           *)
(* operators +, -, *, div and <= with their normalize hooks, and the     *)
(* definition of int.ge added by add_int_theory.                          *)
(*                                                                         *)
(* The normalizer that calls the hooks is not in the sources; it is       *)
(* modelled from spec section 4.4 as rewriting one redex at a time, the   *)
(* redex anywhere in the term: a value head whose normalize accepts its   *)
(* arguments, a constant with a definition (delta), a lambda applied to  *)
(* an argument (beta).  Every order of these steps is explored.  The      *)
(* domain of a lambda is always Int and is left out.                       *)
(***************************************************************************)
EXTENDS Integers, Sequences

CONSTANTS Inputs  \* closed terms given to normalize

Num(v)   == [k |-> "Num", v |-> v]    \* mk_int_value
BoolV(b) == [k |-> "Bool", b |-> b]   \* mk_bool_value
Op(o)    == [k |-> "Op", o |-> o]     \* the builtin operator values
Const(n) == [k |-> "Const", n |-> n]
Var(i)   == [k |-> "Var", i |-> i]
Lam(b)   == [k |-> "Lam", b |-> b]
App(as)  == [k |-> "App", as |-> as]

BinOps == {"+", "-", "*", "div"}

(* mpz division, mpz_tdiv_q: the quotient truncated toward zero. *)
TDiv(a, b) ==
    LET q == (IF a < 0 THEN -a ELSE a) \div (IF b < 0 THEN -b ELSE b)
    IN IF (a < 0) = (b < 0) THEN q ELSE -q

(* int_add_eval, int_sub_eval, int_mul_eval, int_div_eval (lines 92-108). *)
IntEval(o, a, b) ==
    CASE o = "+" -> a + b [] o = "-" -> a - b [] o = "*" -> a * b [] o = "div" -> TDiv(a, b)

(* Seeded bug, caught by NormalFormIsValue: int.ge defined as iLe(x, y). *)
IntGeDefSwapped == Lam(Lam(App(<<Op("<="), Var(1), Var(0)>>)))

(* The environment of add_int_theory (lines 141-146): int.ge is          *)
(* fun x y : Int, iLe(y, x); int.lt and int.gt are constants only.         *)
IntGeDef == Lam(Lam(App(<<Op("<="), Var(0), Var(1)>>)))

Defs == [n \in {"int.ge"} |-> IntGeDef]

-----------------------------------------------------------------------------
(* Positions of sub-terms, and replacement at a position. *)

RECURSIVE Positions(_)
Positions(t) ==
    {<<>>} \cup
    CASE t.k = "App" -> UNION {{<<j>> \o p : p \in Positions(t.as[j])} : j \in DOMAIN t.as}
      [] t.k = "Lam" -> {<<1>> \o p : p \in Positions(t.b)}
      [] OTHER       -> {}

RECURSIVE Sub(_, _)
Sub(t, p) ==
    IF p = <<>> THEN t
    ELSE IF t.k = "App" THEN Sub(t.as[Head(p)], Tail(p)) ELSE Sub(t.b, Tail(p))

RECURSIVE Replace(_, _, _)
Replace(t, p, u) ==
    IF p = <<>> THEN u
    ELSE IF t.k = "App" THEN App([t.as EXCEPT ![Head(p)] = Replace(@, Tail(p), u)])
    ELSE Lam(Replace(t.b, Tail(p), u))

(* instantiate(b, a) for a closed a: variable 0 becomes a, those above   *)
(* go down by one.                                                        *)
RECURSIVE Inst(_, _, _)
Inst(t, a, off) ==
    CASE t.k = "Var" -> IF t.i = off THEN a ELSE IF t.i > off THEN Var(t.i - 1) ELSE t
      [] t.k = "App" -> App([j \in DOMAIN t.as |-> Inst(t.as[j], a, off)])
      [] t.k = "Lam" -> Lam(Inst(t.b, a, off + 1))
      [] OTHER       -> t

-----------------------------------------------------------------------------
(* The normalizer. *)

VARIABLES
    input,    \* the term given to normalize
    term,     \* the term rewritten so far
    crashed   \* an mpz division by zero aborted the process

vars == <<input, term, crashed>>

IsInt(t) == t.k = "Num"

(* The redex of an integer operator at p: the head and its two numerals. *)
BinRedex(p, o) ==
    /\ Sub(term, p).k = "App" /\ Sub(term, p).as[1] = Op(o)
    /\ Len(Sub(term, p).as) = 3
    /\ IsInt(Sub(term, p).as[2]) /\ IsInt(Sub(term, p).as[3])

ArgVal(p, j) == Sub(term, p).as[j + 1].v

(* int_bin_op::normalize (lines 76-83): num_args == 3, both arguments     *)
(* numerals, the result a numeral.                                        *)
IntBinOpNormalize(p, o) ==
    /\ ~crashed /\ o \in BinOps /\ BinRedex(p, o)
    /\ (o = "div" => ArgVal(p, 2) # 0)
    /\ term' = Replace(term, p, Num(IntEval(o, ArgVal(p, 1), ArgVal(p, 2))))
    /\ UNCHANGED <<input, crashed>>

(* int_div_eval (line 107) divides with no test of the divisor: mpz       *)
(* division by zero raises SIGFPE.                                        *)
IntDivByZero(p) ==
    /\ ~crashed /\ BinRedex(p, "div") /\ ArgVal(p, 2) = 0
    /\ crashed' = TRUE
    /\ UNCHANGED <<input, term>>

(* Seeded bug, caught by TypePreserved: the comparison is returned as a  *)
(* numeral (mk_int_value for mk_bool_value).                              *)
IntLeNormalizeNum(p) ==
    /\ ~crashed /\ BinRedex(p, "<=")
    /\ term' = Replace(term, p, Num(IF ArgVal(p, 1) <= ArgVal(p, 2) THEN 1 ELSE 0))
    /\ UNCHANGED <<input, crashed>>

(* int_le_value::normalize (lines 122-129): a Boolean value. *)
IntLeNormalize(p) ==
    /\ ~crashed /\ BinRedex(p, "<=")
    /\ term' = Replace(term, p, BoolV(ArgVal(p, 1) <= ArgVal(p, 2)))
    /\ UNCHANGED <<input, crashed>>

(* A constant with a definition is unfolded. *)
Delta(p) ==
    /\ ~crashed
    /\ Sub(term, p).k = "Const" /\ Sub(term, p).n \in DOMAIN Defs
    /\ term' = Replace(term, p, Defs[Sub(term, p).n])
    /\ UNCHANGED <<input, crashed>>

(* Seeded bug, caught by TypeOK: a lambda applied to one argument leaves *)
(* an application of no argument.                                         *)
BetaNoUnwrap(p) ==
    LET t == Sub(term, p)
        r == Inst(t.as[1].b, t.as[2], 0)
    IN /\ ~crashed
       /\ t.k = "App" /\ t.as[1].k = "Lam"
       /\ term' = Replace(term, p, App(<<r>> \o SubSeq(t.as, 3, Len(t.as))))
       /\ UNCHANGED <<input, crashed>>

(* A lambda applied to arguments takes the first one. *)
Beta(p) ==
    LET t == Sub(term, p)
        r == Inst(t.as[1].b, t.as[2], 0)
    IN /\ ~crashed
       /\ t.k = "App" /\ t.as[1].k = "Lam"
       /\ term' = Replace(term, p, IF Len(t.as) = 2 THEN r
                                   ELSE App(<<r>> \o SubSeq(t.as, 3, Len(t.as))))
       /\ UNCHANGED <<input, crashed>>

Init == input \in Inputs /\ term = input /\ crashed = FALSE

Next ==
    \E p \in Positions(term) :
        \/ \E o \in BinOps : IntBinOpNormalize(p, o)
        \/ IntDivByZero(p)
        \/ IntLeNormalize(p)
        \/ Delta(p)
        \/ Beta(p)

Spec == Init /\ [][Next]_vars

Normal == ~crashed /\ ~ENABLED Next

-----------------------------------------------------------------------------
(* Properties. *)

(* Types as the sequence of argument types then the result: <<"Int">> is *)
(* Int, <<"Int", "Int", "Bool">> is Int >> (Int >> Bool); <<>> is an      *)
(* ill-typed term.                                                          *)
OpType(o) == IF o = "<=" THEN <<"Int", "Int", "Bool">> ELSE <<"Int", "Int", "Int">>

RECURSIVE TypeOf(_, _)
TypeOf(t, ctx) ==
    CASE t.k = "Num"   -> <<"Int">>
      [] t.k = "Bool"  -> <<"Bool">>
      [] t.k = "Op"    -> OpType(t.o)
      [] t.k = "Const" -> IF t.n \in {"int.ge", "int.lt", "int.gt"}
                          THEN <<"Int", "Int", "Bool">> ELSE <<>>
      [] t.k = "Var"   -> IF t.i < Len(ctx) THEN <<ctx[t.i + 1]>> ELSE <<>>
      [] t.k = "Lam"   -> LET bt == TypeOf(t.b, <<"Int">> \o ctx)
                          IN IF bt = <<>> THEN <<>> ELSE <<"Int">> \o bt
      [] t.k = "App"   ->
           LET ft == TypeOf(t.as[1], ctx)
               n  == Len(t.as) - 1
           IN IF /\ n < Len(ft)
                 /\ \A j \in 1..n : TypeOf(t.as[j + 1], ctx) = <<ft[j]>>
              THEN SubSeq(ft, n + 1, Len(ft)) ELSE <<>>

(* The meaning of a closed first-order term: integer operators, <= and   *)
(* int.ge as the comparisons of the integers, div truncating.             *)
RECURSIVE Eval(_)
Eval(t) ==
    IF t.k = "Num" THEN t.v ELSE IntEval(t.as[1].o, Eval(t.as[2]), Eval(t.as[3]))

ValueOf(t) ==
    CASE t.k = "Num"                  -> t
      [] t.as[1] = Op("<=")           -> BoolV(Eval(t.as[2]) <= Eval(t.as[3]))
      [] t.as[1] = Const("int.ge")    -> BoolV(Eval(t.as[2]) >= Eval(t.as[3]))
      [] OTHER                        -> Num(Eval(t))

TypeOK ==
    /\ input.k \in {"Num", "App"} /\ crashed \in BOOLEAN
    /\ \A p \in Positions(term) :
          /\ Sub(term, p).k \in {"Num", "Bool", "Op", "Const", "Var", "Lam", "App"}
          /\ Sub(term, p).k = "App" => Len(Sub(term, p).as) >= 2

(* Subject reduction (spec section 8): every step of the normalizer, in   *)
(* whatever order it picks redexes, keeps the type of the input: the     *)
(* hooks of int_bin_op and int_le_value return a value of the result type *)
(* of the operator, and the definition of int.ge has its declared type.   *)
TypePreserved == ~crashed => TypeOf(term, <<>>) = TypeOf(input, <<>>)

(* Whatever the order of the steps, a normal form of a closed arithmetic *)
(* term is the value of that term: the hooks fire exactly on numerals,   *)
(* delta and beta of int.ge bring the arguments to int.le in the right   *)
(* order, and no redex is left behind.                                     *)
NormalFormIsValue == Normal => term = ValueOf(input)

(* Normalizing a well-typed closed term never aborts the process. *)
NoCrash == ~crashed

=============================================================================
