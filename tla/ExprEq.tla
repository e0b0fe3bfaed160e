-------------------------------- MODULE ExprEq --------------------------------
(***************************************************************************)
(* expr_eq.h: expr_eq_fn<N, UseHash> objects comparing nodes of a fixed    *)
(* heap.                                                                    *)
(*                                                                         *)
(* The recursive apply is modelled step by step with a stack of frames,    *)
(* one per active apply(a0, b0), so that check_system (line 42) can throw  *)
(* at the entry of any of them.  An object o has its normaliser            *)
(* (ObjNorm[o]: "id" for id_expr_fn, "root" for the union-find root_fn of  *)
(* metavar_env::is_modulo_eq), its UseHash flag, and its m_eq_visited set  *)
(* visited[o], kept across calls until clear().  Leaves are constants,     *)
(* compared by name after the visited check.  The hash of a node is        *)
(* abstracted to the size of its tree: equal trees have equal hashes and   *)
(* distinct trees of one size collide.                                      *)
(***************************************************************************)
EXTENDS ExprDag

CONSTANTS Heap, Root, Objs, ObjNorm, ObjUseHash, MaxCalls

ASSUME Root \in [Ids(Heap) -> Ids(Heap)]
ASSUME ObjNorm \in [Objs -> {"id", "root"}] /\ ObjUseHash \in [Objs -> BOOLEAN]

VARIABLES
    visited,  \* visited[o]: the m_eq_visited pairs of object o
    stack,    \* frames of the active apply calls, innermost last
    obj,      \* the object of the current or last call
    inA, inB, \* the arguments of the current or last call
    result,   \* its answer, meaningful once answered
    answered, \* the current or last call returned (was not interrupted)
    fresh,    \* the visited set of obj was empty when the call began
    calls     \* calls made so far

vars == <<visited, stack, obj, inA, inB, result, answered, fresh, calls>>

Hash(n) == TreeSize(Heap, n)

(* id_expr_fn, lines 14-17: the identity. *)
IdExprFn(n) == n

(* root_fn (not under src/): a metavariable to the root of its class in *)
(* the union-find table of the metavariable environment.                 *)
RootFn(n) == Root[n]

(* m_norm(e), lines 30 and 45-46, with the normaliser N of object o. *)
Norm(o, n) == IF ObjNorm[o] = "root" THEN RootFn(n) ELSE IdExprFn(n)

Frame(a, b) == [a |-> a, b |-> b, st |-> "enter", i |-> 0]

Top == stack[Len(stack)]

(* Seeded bug, caught by FreshAnswerIsEqModN: a false answer of a sub-term *)
(* is dropped, as if the App loop lacked its "return false".               *)
ReturnValueIgnoreFalse(v) ==
    LET rest == SubSeq(stack, 1, Len(stack) - 1)
    IN IF rest = <<>>
       THEN stack' = <<>> /\ result' = v /\ answered' = TRUE
       ELSE /\ stack' = [rest EXCEPT ![Len(rest)].i = @ + 1]
            /\ UNCHANGED <<result, answered>>

(* apply returns v.  false is returned at once by every enclosing apply   *)
(* (the App loop and the && of the binder case); true lets the parent go  *)
(* on with its next pair of sub-terms.                                     *)
ReturnValue(v) ==
    LET rest == SubSeq(stack, 1, Len(stack) - 1)
    IN IF ~v \/ rest = <<>>
       THEN stack' = <<>> /\ result' = v /\ answered' = TRUE
       ELSE /\ stack' = [rest EXCEPT ![Len(rest)].i = @ + 1]
            /\ UNCHANGED <<result, answered>>

Entering == stack # <<>> /\ Top.st = "enter"

(* Lines 43-44: pointer equality and, with UseHash, hash inequality. *)
EqPointer ==
    /\ Entering /\ Top.a = Top.b
    /\ ReturnValue(TRUE)
    /\ UNCHANGED <<visited, obj, inA, inB, fresh, calls>>

EqHashDiffers ==
    /\ Entering /\ Top.a # Top.b
    /\ ObjUseHash[obj] /\ Hash(Top.a) # Hash(Top.b)
    /\ ReturnValue(FALSE)
    /\ UNCHANGED <<visited, obj, inA, inB, fresh, calls>>

PastHash ==
    /\ Entering /\ Top.a # Top.b
    /\ ObjUseHash[obj] => Hash(Top.a) = Hash(Top.b)

NA == Norm(obj, Top.a)
NB == Norm(obj, Top.b)

(* Lines 45-47: the normalised nodes have different kinds. *)
EqKindDiffers ==
    /\ PastHash /\ Heap[NA].k # Heap[NB].k
    /\ ReturnValue(FALSE)
    /\ UNCHANGED <<visited, obj, inA, inB, fresh, calls>>

(* Lines 49-54: both nodes shared (a reference count the model does not   *)
(* keep, so either outcome) and the pair already visited.                 *)
EqVisited ==
    /\ PastHash /\ Heap[NA].k = Heap[NB].k
    /\ <<NA, NB>> \in visited[obj]
    /\ ReturnValue(TRUE)
    /\ UNCHANGED <<visited, obj, inA, inB, fresh, calls>>

(* Seeded bug, caught by TypeOK: the sub-terms are taken from the nodes   *)
(* as given instead of the normalised ones (a0, b0 for a, b).              *)
EqCompareUnnormalised ==
    /\ PastHash /\ Heap[NA].k = Heap[NB].k
    /\ \E shared \in BOOLEAN :
          /\ shared => <<NA, NB>> \notin visited[obj]
          /\ visited' = IF shared THEN [visited EXCEPT ![obj] = @ \cup {<<NA, NB>>}]
                        ELSE visited
    /\ CASE Heap[NA].k = "Leaf" -> ReturnValue(Heap[NA].label = Heap[NB].label)
         [] Heap[NA].k = "HEq"  ->
               ReturnValue(\A j \in 1..2 : StructEq(Heap, Heap[NA].args[j], Heap[NB].args[j]))
         [] Len(Heap[NA].args) # Len(Heap[NB].args) -> ReturnValue(FALSE)
         [] OTHER -> /\ stack' = [stack EXCEPT ![Len(stack)] =
                                    [a |-> Top.a, b |-> Top.b, st |-> "kids", i |-> 0]]
                     /\ UNCHANGED <<result, answered>>
    /\ UNCHANGED <<obj, inA, inB, fresh, calls>>

(* Lines 49-69: the pair is recorded when both are shared, then compared  *)
(* by kind: a constant by name, HEq by operator== on its sides (a fresh   *)
(* expr_eq_fn with identity normaliser), App by its sub-terms in order.   *)
EqCompare ==
    /\ PastHash /\ Heap[NA].k = Heap[NB].k
    /\ \E shared \in BOOLEAN :
          /\ shared => <<NA, NB>> \notin visited[obj]
          /\ visited' = IF shared THEN [visited EXCEPT ![obj] = @ \cup {<<NA, NB>>}]
                        ELSE visited
    /\ CASE Heap[NA].k = "Leaf" -> ReturnValue(Heap[NA].label = Heap[NB].label)
         [] Heap[NA].k = "HEq"  ->
               ReturnValue(\A j \in 1..2 : StructEq(Heap, Heap[NA].args[j], Heap[NB].args[j]))
         [] Len(Heap[NA].args) # Len(Heap[NB].args) -> ReturnValue(FALSE)
         [] OTHER -> /\ stack' = [stack EXCEPT ![Len(stack)] =
                                    [a |-> NA, b |-> NB, st |-> "kids", i |-> 0]]
                     /\ UNCHANGED <<result, answered>>
    /\ UNCHANGED <<obj, inA, inB, fresh, calls>>

(* Lines 63-64: apply on the next pair of sub-terms. *)
EqChild ==
    /\ stack # <<>> /\ Top.st = "kids"
    /\ Top.i < Len(Heap[Top.a].args)
    /\ stack' = Append(stack, Frame(Heap[Top.a].args[Top.i + 1], Heap[Top.b].args[Top.i + 1]))
    /\ UNCHANGED <<visited, obj, inA, inB, result, answered, fresh, calls>>

(* Line 66: every pair of sub-terms is equal. *)
EqExit ==
    /\ stack # <<>> /\ Top.st = "kids"
    /\ Top.i = Len(Heap[Top.a].args)
    /\ ReturnValue(TRUE)
    /\ UNCHANGED <<visited, obj, inA, inB, fresh, calls>>

(* check_system throws at the entry of apply; visited pairs stay. *)
Interrupt ==
    /\ Entering
    /\ stack' = <<>> /\ answered' = FALSE
    /\ UNCHANGED <<visited, result, obj, inA, inB, fresh, calls>>

-----------------------------------------------------------------------------
(* The clients. *)

Idle == stack = <<>>

(* expr_eq_fn::operator(), line 97. *)
Call(o, a, b) ==
    /\ Idle /\ calls < MaxCalls
    /\ stack' = <<Frame(a, b)>>
    /\ obj' = o /\ inA' = a /\ inB' = b /\ answered' = FALSE
    /\ fresh' = (visited[o] = {})
    /\ calls' = calls + 1
    /\ UNCHANGED <<visited, result>>

(* expr_eq_fn::clear, line 100. *)
Clear(o) ==
    /\ Idle
    /\ visited' = [visited EXCEPT ![o] = {}]
    /\ UNCHANGED <<stack, obj, inA, inB, result, answered, fresh, calls>>

Init ==
    /\ visited = [o \in Objs |-> {}]
    /\ stack = <<>>
    /\ obj = (CHOOSE o \in Objs : TRUE)
    /\ inA = 1 /\ inB = 1 /\ result = FALSE /\ answered = FALSE /\ fresh = TRUE
    /\ calls = 0

Next ==
    \/ EqPointer \/ EqHashDiffers \/ EqKindDiffers \/ EqVisited
    \/ EqCompare \/ EqChild \/ EqExit \/ Interrupt
    \/ \E o \in Objs, a, b \in Ids(Heap) : Call(o, a, b)
    \/ \E o \in Objs : Clear(o)

Spec == Init /\ [][Next]_vars

-----------------------------------------------------------------------------
(* Properties. *)

(* The tree of n with the normaliser of o applied at every sub-term. *)
RECURSIVE NTree(_, _)
NTree(o, n) ==
    LET m == Norm(o, n)
    IN IF Heap[m].k = "Leaf" THEN <<Heap[m].label>>
       ELSE <<Heap[m].k, [j \in DOMAIN Heap[m].args |-> NTree(o, Heap[m].args[j])]>>

(* What the class comment (lines 19-26) and is_modulo_eq promise: equality *)
(* of the two terms with sub-expressions normalised by N.                  *)
EqModN(o, a, b) == NTree(o, a) = NTree(o, b)

Done == Idle /\ answered

TypeOK ==
    /\ visited \in [Objs -> SUBSET (Ids(Heap) \X Ids(Heap))]
    /\ \A j \in DOMAIN stack :
          /\ stack[j].a \in Ids(Heap) /\ stack[j].b \in Ids(Heap)
          /\ stack[j].st \in {"enter", "kids"}
          /\ stack[j].st = "kids" =>
                /\ Heap[stack[j].a].k = "App" /\ Heap[stack[j].b].k = "App"
                /\ stack[j].i \in 0..Len(Heap[stack[j].a].args)
    /\ obj \in Objs /\ inA \in Ids(Heap) /\ inB \in Ids(Heap)
    /\ result \in BOOLEAN /\ answered \in BOOLEAN /\ fresh \in BOOLEAN
    /\ calls \in 0..MaxCalls

(* A call on an object with an empty visited set (new, or after clear())   *)
(* answers equality modulo its normaliser, for the identity with the hash *)
(* shortcut and for root_fn without it.                                    *)
FreshAnswerIsEqModN == (Done /\ fresh) => result = EqModN(obj, inA, inB)

(* Every answer of a reused object is equality modulo its normaliser, also *)
(* after an earlier call answered false or was interrupted, leaving pairs  *)
(* in m_eq_visited that were never shown equal.                            *)
AnswerIsEqModN == Done => result = EqModN(obj, inA, inB)

=============================================================================
