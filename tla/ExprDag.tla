------------------------------- MODULE ExprDag -------------------------------
(***************************************************************************)
(* Terms as a heap of nodes with identity.                                 *)
(*                                                                         *)
(* A node is an expr_cell: pointer equality (is_eqp) compares node ids,    *)
(* structural equality compares the trees the nodes unfold to.  A leaf     *)
(* stands for every kind without sub-terms that max_sharing and expr_eq    *)
(* return or compare by a field (Type, Value, a Constant without a type); *)
(* App stands for every kind with sub-terms that both traverse child by   *)
(* child (App, Lambda, Pi, Sigma, Let); HEq is kept apart, as expr_eq     *)
(* compares its sides differently.  The heap is a sequence, so node i is  *)
(* heap[i]; nodes are never freed, as the caches and the visited sets     *)
(* hold references to them.                                                *)
(***************************************************************************)
EXTENDS Naturals, Sequences, FiniteSets

Leaf(l)  == [k |-> "Leaf", label |-> l, args |-> <<>>]
AppN(as) == [k |-> "App", label |-> "app", args |-> as]
HEqN(l, r) == [k |-> "HEq", label |-> "heq", args |-> <<l, r>>]

Ids(heap) == DOMAIN heap

(* The tree node n unfolds to: its structural value. *)
RECURSIVE Tree(_, _)
Tree(heap, n) ==
    IF heap[n].k = "Leaf" THEN <<heap[n].label>>
    ELSE <<heap[n].k, [i \in DOMAIN heap[n].args |-> Tree(heap, heap[n].args[i])]>>

StructEq(heap, a, b) == Tree(heap, a) = Tree(heap, b)

(* The number of nodes of the tree of n. *)
RECURSIVE TreeSize(_, _)
TreeSize(heap, n) ==
    1 + LET as == heap[n].args
            F[i \in 0..Len(as)] == IF i = 0 THEN 0 ELSE F[i - 1] + TreeSize(heap, as[i])
        IN F[Len(as)]

(* The nodes reachable from n, n included. *)
RECURSIVE Reach(_, _)
Reach(heap, n) ==
    {n} \cup UNION {Reach(heap, heap[n].args[i]) : i \in DOMAIN heap[n].args}

(* No two distinct reachable nodes of n are structurally equal: the       *)
(* smallest possible number of distinct nodes.                             *)
IsMaximallyShared(heap, n) ==
    \A x, y \in Reach(heap, n) : StructEq(heap, x, y) => x = y

=============================================================================
