---------------------------- MODULE MCExprEqHEq ----------------------------
(***************************************************************************)
(* The heap of MCExprEq with two HEq nodes whose left sides differ only by *)
(* the metavariable m and its root App(a, a).                              *)
(***************************************************************************)
EXTENDS MCExprEq

(* 9 HEq(m, a), 10 HEq(App(a, a), a). *)
MCHeapHEq == MCHeap \o <<HEqN(3, 1), HEqN(4, 1)>>

MCRootHEq == [n \in 1..10 |-> IF n = 3 THEN 4 ELSE n]

=============================================================================
