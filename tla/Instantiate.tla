----------------------------- MODULE Instantiate -----------------------------
(***************************************************************************)
(* The substitution algebra of src/src/kernel/instantiate.cpp.             *)
(*                                                                         *)
(* A client holds a term and applies the kernel entry points of            *)
(* instantiate.cpp to it: instantiate, instantiate_with_closed,            *)
(* apply_beta, head_beta_reduce and beta_reduce.  Each step records the    *)
(* call in `last` so that the invariants can relate the result of a call   *)
(* to its input.  Metavariables are assigned by `sigma`, fixed in Init,    *)
(* and are read back through instantiate_metavars.                         *)
(***************************************************************************)
EXTENDS LambdaRef

CONSTANTS
    Inputs,         \* initial terms of the client
    Starts,         \* values of the parameter s of instantiate
    Substs,         \* substitutions for instantiate (non-empty sequences)
    ClosedSubsts,   \* closed substitutions for instantiate_with_closed
    ArgSeqs,        \* argument sequences for apply_beta (non-empty)
    Assignments,    \* candidate metavariable assignments: functions name -> term
    MaxSize,        \* bound on the size of the client's term
    MaxCalls,       \* bound on the number of calls the client makes
    MaxBetaRounds   \* bound on the iterations of the loop of beta_reduce

ASSUME MaxSize \in Nat /\ MaxCalls \in Nat /\ MaxBetaRounds \in Nat
ASSUME \A s \in Substs \cup ClosedSubsts \cup ArgSeqs : Len(s) >= 1

VARIABLES term, last, sigma, calls

vars == <<term, last, sigma, calls>>

(***************************************************************************)
(* instantiate_core<ClosedSubst>(a, s, n, subst) as visited by replace at  *)
(* binder depth offset: Var(s+i) becomes subst[n-1-i] (lifted by offset    *)
(* unless the substitution is closed), variables above s+n are lowered by  *)
(* n, and a metavariable gets one delayed Inst entry per substituted       *)
(* variable, subst[0] first.  subst is 1-based here.                       *)
(***************************************************************************)
RECURSIVE InstCore(_, _, _, _, _, _)

(* Seeded bug, caught by DelayedInstCommutes: the value of an entry is    *)
(* lifted by the binder depth only.                                        *)
AddInstsLiftOffsetOnly(closed, m, offset, s, n, subst) ==
    LET Entry(i) ==
            InstEntry(offset + s + n - i - 1,
                      IF closed THEN subst[i + 1] ELSE LiftFreeVars(subst[i + 1], 0, offset))
    IN MetaVar(m.name, [j \in 1..n |-> Entry(n - j)] \o m.lctx)

(* add_inst for each substituted variable, subst[0] first: the entry for  *)
(* subst[i] instantiates variable offset+s+n-i-1 and its value is lifted   *)
(* by the binder depth plus the n-i-1 entries applied after it.            *)
AddInsts(closed, m, offset, s, n, subst) ==
    LET Entry(i) ==
            InstEntry(offset + s + n - i - 1,
                      IF closed THEN subst[i + 1]
                      ELSE LiftFreeVars(subst[i + 1], 0, offset + n - i - 1))
    IN MetaVar(m.name, [j \in 1..n |-> Entry(n - j)] \o m.lctx)

InstCore(closed, m, offset, s, n, subst) ==
    CASE m.k = "Var" ->
            IF m.idx >= offset + s
            THEN IF m.idx < offset + s + n
                 THEN LET v == subst[n - (m.idx - s - offset)]
                      IN IF closed THEN v ELSE LiftFreeVars(v, 0, offset)
                 ELSE Var(m.idx - n)
            ELSE m
      [] m.k = "MetaVar" -> AddInsts(closed, m, offset, s, n, subst)
      [] m.k = "App" ->
            App([i \in DOMAIN m.args |-> InstCore(closed, m.args[i], offset, s, n, subst)])
      [] m.k = "Lambda" ->
            Lambda(InstCore(closed, m.dom, offset, s, n, subst),
                   InstCore(closed, m.body, offset + 1, s, n, subst))
      [] OTHER -> m

(* Seeded bug, caught by BetaReduceIsNormalForm: an open substitution     *)
(* handled by the closed variant, which does not lift it under binders.    *)
InstantiateAsClosed(e, s, n, subst) == InstCore(TRUE, e, 0, s, n, subst)

Instantiate(e, s, n, subst) == InstCore(FALSE, e, 0, s, n, subst)

InstantiateWithClosed(e, n, subst) == InstCore(TRUE, e, 0, 0, n, subst)

IsHeadBeta(t) == t.k = "App" /\ IsLambda(t.args[1])

(* The loop of apply_beta: descend while the body is a lambda and fewer  *)
(* than num_args binders have been counted; returns <<f, m>>.            *)
RECURSIVE LeadingLambdas(_, _, _)
LeadingLambdas(f, m, num) ==
    IF IsLambda(f.body) /\ m < num THEN LeadingLambdas(f.body, m + 1, num)
    ELSE <<f, m>>

(* Seeded bug, caught by TypeOK: the m = num_args test dropped, so a full *)
(* application leaves a one-element application behind.                   *)
ApplyBetaAlwaysApp(f, args) ==
    IF ~IsLambda(f) THEN App(<<f>> \o args)
    ELSE LET fm == LeadingLambdas(f, 1, Len(args))
             m  == fm[2]
         IN App(<<Instantiate(fm[1].body, 0, m, SubSeq(args, 1, m))>> \o SubSeq(args, m + 1, Len(args)))

ApplyBeta(f, args) ==
    IF ~IsLambda(f) THEN App(<<f>> \o args)
    ELSE LET fm == LeadingLambdas(f, 1, Len(args))
             m  == fm[2]
             r  == Instantiate(fm[1].body, 0, m, SubSeq(args, 1, m))
         IN IF m = Len(args) THEN r
            ELSE App(<<r>> \o SubSeq(args, m + 1, Len(args)))

HeadBetaReduce(t) ==
    IF ~IsHeadBeta(t) THEN t ELSE ApplyBeta(t.args[1], Tail(t.args))

(* One replace pass of beta_reduce: a head-beta redex is reduced and not  *)
(* visited further; any other node is rebuilt from its visited children. *)
RECURSIVE BetaPass(_)
BetaPass(t) ==
    IF IsHeadBeta(t) THEN HeadBetaReduce(t)
    ELSE CASE t.k = "App"    -> App([i \in DOMAIN t.args |-> BetaPass(t.args[i])])
           [] t.k = "Lambda" -> Lambda(BetaPass(t.dom), BetaPass(t.body))
           [] OTHER          -> t

(* The loop of beta_reduce, which stops when a pass changes nothing.      *)
(* The code has no bound; after MaxBetaRounds passes the model reports   *)
(* Diverged.                                                             *)
RECURSIVE BetaLoop(_, _)
BetaLoop(t, fuel) ==
    LET nt == BetaPass(t)
    IN IF nt = t THEN nt
       ELSE IF fuel = 0 THEN Diverged
       ELSE BetaLoop(nt, fuel - 1)

BetaReduce(t) == BetaLoop(t, MaxBetaRounds)

(***************************************************************************)
(* instantiate_metavars (metavar.cpp, not in src/; from the spec): an      *)
(* assigned metavariable is replaced by its value with the entries of its  *)
(* local context applied right to left, i.e. oldest first.  A Lift entry   *)
(* is lift_free_vars, an Inst entry is instantiate of one variable.        *)
(***************************************************************************)
RECURSIVE ApplyLctx(_, _)
ApplyLctx(t, l) ==
    IF l = <<>> THEN t
    ELSE LET en == l[Len(l)]
             t1 == IF en.k = "Lift" THEN LiftFreeVars(t, en.s, en.n)
                   ELSE Instantiate(t, en.s, 1, <<en.v>>)
         IN ApplyLctx(t1, SubSeq(l, 1, Len(l) - 1))

RECURSIVE InstantiateMetavars(_, _)
InstantiateMetavars(e, a) ==
    CASE e.k = "MetaVar" ->
            ApplyLctx(a[e.name],
                      [j \in DOMAIN e.lctx |->
                          IF e.lctx[j].k = "Inst"
                          THEN InstEntry(e.lctx[j].s, InstantiateMetavars(e.lctx[j].v, a))
                          ELSE e.lctx[j]])
      [] e.k = "App" ->
            App([i \in DOMAIN e.args |-> InstantiateMetavars(e.args[i], a)])
      [] e.k = "Lambda" ->
            Lambda(InstantiateMetavars(e.dom, a), InstantiateMetavars(e.body, a))
      [] OTHER -> e

-----------------------------------------------------------------------------
(* The client. *)

NoCall == [op |-> "none", in |-> Diverged, s |-> 0, args |-> <<>>, out |-> Diverged]

Init ==
    /\ term \in Inputs
    /\ sigma \in Assignments
    /\ last = NoCall
    /\ calls = 0

(* Record a call; a result that does not fit MaxSize is not kept. *)
Call(op, s, args, out) ==
    /\ calls < MaxCalls
    /\ calls' = calls + 1
    /\ Size(out) <= MaxSize
    /\ last' = [op |-> op, in |-> term, s |-> s, args |-> args, out |-> out]
    /\ term' = IF out = Diverged THEN term ELSE out
    /\ UNCHANGED sigma

DoInstantiate ==
    \E s \in Starts, subst \in Substs :
        Call("instantiate", s, subst, Instantiate(term, s, Len(subst), subst))

DoInstantiateWithClosed ==
    \E subst \in ClosedSubsts :
        Call("instantiate_with_closed", 0, subst, InstantiateWithClosed(term, Len(subst), subst))

DoApplyBeta ==
    \E args \in ArgSeqs : Call("apply_beta", 0, args, ApplyBeta(term, args))

DoHeadBetaReduce == Call("head_beta_reduce", 0, <<>>, HeadBetaReduce(term))

DoBetaReduce == Call("beta_reduce", 0, <<>>, BetaReduce(term))

Next ==
    \/ DoInstantiate
    \/ DoInstantiateWithClosed
    \/ DoApplyBeta
    \/ DoHeadBetaReduce
    \/ DoBetaReduce

Spec == Init /\ [][Next]_vars

-----------------------------------------------------------------------------
(* Properties. *)

RECURSIVE IsTerm(_)
IsTerm(e) ==
    CASE e.k = "Var"      -> e.idx \in Nat
      [] e.k = "Constant" -> TRUE
      [] e.k = "App"      -> Len(e.args) >= 2 /\ \A i \in DOMAIN e.args : IsTerm(e.args[i])
      [] e.k = "Lambda"   -> IsTerm(e.dom) /\ IsTerm(e.body)
      [] e.k = "MetaVar"  -> \A j \in DOMAIN e.lctx :
                                e.lctx[j].k = "Lift" \/ IsTerm(e.lctx[j].v)
      [] OTHER            -> FALSE

Ops == {"none", "instantiate", "instantiate_with_closed", "apply_beta",
        "head_beta_reduce", "beta_reduce"}

TypeOK ==
    /\ IsTerm(term) /\ Size(term) <= MaxSize
    /\ last.op \in Ops
    /\ sigma \in Assignments
    /\ calls \in 0..MaxCalls

(* beta_reduce (the replace pass of head_beta_reduce/apply_beta, iterated *)
(* to a fixpoint) returns the normal form that textbook normal-order     *)
(* reduction with one-variable substitution reaches, whenever the latter  *)
(* terminates: the n-ary simultaneous instantiate with its lifting of     *)
(* the arguments is the same as substituting the arguments one by one.   *)
BetaReduceIsNormalForm ==
    (last.op = "beta_reduce" /\ ~HasMetavar(last.in)) =>
        LET ref == RefNormalForm(Curry(last.in), MaxBetaRounds)
        IN ref # Diverged => Curry(last.out) = ref

(* A delayed substitution on a metavariable (the Inst entries that         *)
(* instantiate pushes on its local context) gives, once the metavariable   *)
(* is assigned and instantiate_metavars applies the entries, the same      *)
(* term as substituting into the assigned value directly.                  *)
DelayedInstCommutes ==
    last.op \in {"instantiate", "instantiate_with_closed"} =>
        InstantiateMetavars(last.out, sigma) =
            Instantiate(InstantiateMetavars(last.in, sigma), last.s, Len(last.args),
                        [i \in DOMAIN last.args |-> InstantiateMetavars(last.args[i], sigma)])

=============================================================================
