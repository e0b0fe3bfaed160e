------------------------------ MODULE MCExprEq ------------------------------
(***************************************************************************)
(* A heap with two constants a and b, a metavariable m whose class root is *)
(* the term App(a, a), and applications that differ in one sub-term, so    *)
(* that comparisons stop half way.  Object oid is expr_eq_fn<> (identity,  *)
(* hash), object oroot the root_fn comparison of is_modulo_eq (no hash).   *)
(***************************************************************************)
EXTENDS ExprEq

(* 1 a, 2 b, 3 m, 4 App(a, a), 5 App(a, b), 6 App(m, a), 7 App(4, b),     *)
(* 8 App(3, a), a second node for App(m, a).                               *)
MCHeap == <<Leaf("a"), Leaf("b"), Leaf("m"), AppN(<<1, 1>>), AppN(<<1, 2>>),
            AppN(<<3, 1>>), AppN(<<4, 2>>), AppN(<<3, 1>>)>>

MCRoot == [n \in 1..8 |-> IF n = 3 THEN 4 ELSE n]

MCObjNorm    == [o \in Objs |-> IF o = "oid" THEN "id" ELSE "root"]
MCObjUseHash == [o \in Objs |-> o = "oid"]

=============================================================================
