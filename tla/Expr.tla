-------------------------------- MODULE Expr --------------------------------
(***************************************************************************)
(* Kernel terms with de Bruijn indices, as immutable values.               *)
(*                                                                         *)
(* A term is a record whose field k is its kind, as expr_kind in the       *)
(* kernel.  Applications are n-ary: args[1] is the function (arg(e, 0) in  *)
(* the code) and args[2..] the arguments.  Lambda stands for every         *)
(* abstraction (Lambda, Pi, Sigma): the substitution code treats them with *)
(* one case.  A metavariable carries its local context, a sequence of      *)
(* delayed Lift/Inst entries with the most recent entry first.             *)
(***************************************************************************)
EXTENDS Naturals, Sequences

Var(i)          == [k |-> "Var", idx |-> i]
Constant(c)     == [k |-> "Constant", name |-> c]
App(as)         == [k |-> "App", args |-> as]
Lambda(d, b)    == [k |-> "Lambda", dom |-> d, body |-> b]
MetaVar(m, l)   == [k |-> "MetaVar", name |-> m, lctx |-> l]

LiftEntry(s, n) == [k |-> "Lift", s |-> s, n |-> n]
InstEntry(s, v) == [k |-> "Inst", s |-> s, v |-> v]

IsLambda(e) == e.k = "Lambda"

RECURSIVE HasMetavar(_)
HasMetavar(e) ==
    CASE e.k = "MetaVar" -> TRUE
      [] e.k = "App"     -> \E i \in DOMAIN e.args : HasMetavar(e.args[i])
      [] e.k = "Lambda"  -> HasMetavar(e.dom) \/ HasMetavar(e.body)
      [] OTHER           -> FALSE

(* Number of nodes, the weight of the term. *)
(* A local-context entry counts one, plus its value for an Inst entry.  *)
RECURSIVE Size(_), SizeSeq(_)
SizeSeq(as) == IF as = <<>> THEN 0 ELSE Size(Head(as)) + SizeSeq(Tail(as))
Size(e) ==
    CASE e.k = "App"     -> 1 + SizeSeq(e.args)
      [] e.k = "Lambda"  -> 1 + Size(e.dom) + Size(e.body)
      [] e.k = "MetaVar" -> 1 + SizeSeq(e.lctx)
      [] e.k = "Inst"    -> 1 + Size(e.v)
      [] OTHER           -> 1

(* TRUE iff e has a free variable with index >= low (metavariable-free e). *)
RECURSIVE HasFreeVarGE(_, _)
HasFreeVarGE(e, low) ==
    CASE e.k = "Var"    -> e.idx >= low
      [] e.k = "App"    -> \E i \in DOMAIN e.args : HasFreeVarGE(e.args[i], low)
      [] e.k = "Lambda" -> HasFreeVarGE(e.dom, low) \/ HasFreeVarGE(e.body, low + 1)
      [] OTHER          -> FALSE

IsClosed(e) == ~HasMetavar(e) /\ ~HasFreeVarGE(e, 0)

(***************************************************************************)
(* lift_free_vars(e, s, d): add d to every free variable with index >= s.  *)
(* A metavariable records the lift as a Lift entry on its context.         *)
(***************************************************************************)
RECURSIVE LiftCore(_, _, _, _)
LiftCore(e, offset, s, d) ==
    CASE e.k = "Var"     -> IF e.idx >= offset + s THEN Var(e.idx + d) ELSE e
      [] e.k = "MetaVar" -> MetaVar(e.name, <<LiftEntry(offset + s, d)>> \o e.lctx)
      [] e.k = "App"     -> App([i \in DOMAIN e.args |-> LiftCore(e.args[i], offset, s, d)])
      [] e.k = "Lambda"  -> Lambda(LiftCore(e.dom, offset, s, d),
                                   LiftCore(e.body, offset + 1, s, d))
      [] OTHER           -> e

LiftFreeVars(e, s, d) == IF d = 0 THEN e ELSE LiftCore(e, 0, s, d)

=============================================================================
