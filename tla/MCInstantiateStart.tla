------------------------- MODULE MCInstantiateStart -------------------------
(***************************************************************************)
(* The model of MCInstantiate with instantiate also called at start s = 1, *)
(* so that delayed Inst entries with s > 0 and two substituted values are  *)
(* pushed on a metavariable.                                               *)
(***************************************************************************)
EXTENDS MCInstantiate

MCStartsWithOne == {0, 1}

=============================================================================
