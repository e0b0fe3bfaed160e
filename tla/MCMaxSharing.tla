---------------------------- MODULE MCMaxSharing ----------------------------
(***************************************************************************)
(* Two leaves labelled a (structurally equal, distinct nodes) and one      *)
(* labelled b; clients build applications over them, share them with two  *)
(* max_sharing_fn objects and with the max_sharing function.               *)
(***************************************************************************)
EXTENDS MaxSharing

MCLabels  == {"a", "b"}
MCInitHeap == <<Leaf("a"), Leaf("a"), Leaf("b")>>

=============================================================================
